---------------------------- MODULE Spec2Model ----------------------------
(***************************************************************************)
(* The PlaceOrder workflow (validate -> price -> shipping -> VIP ->        *)
(* acknowledge -> events) of the order-taking domain, with the constrained *)
(* simple types it is built on.                                            *)
(*                                                                         *)
(* Conventions of the model:                                               *)
(*  - a JavaScript string is a sequence of one-character strings, so that  *)
(*    length, emptiness, trimming and the regular expressions are computed;*)
(*  - a JavaScript number is an integer count of hundredths (Scale), so    *)
(*    that 0.05 kg is 5 and the price 5 is 500;                            *)
(*  - Either, Option and a thrown exception are tagged records.            *)
(***************************************************************************)
EXTENDS Integers, Sequences, FiniteSets, TLC

(***************************************************************************)
(* fp-ts values                                                            *)
(***************************************************************************)
None == [_tag |-> "None"]
Some(v) == [_tag |-> "Some", value |-> v]
Left(e) == [_tag |-> "Left", left |-> e]
Right(a) == [_tag |-> "Right", right |-> a]
\* a JavaScript exception leaving a function: `throw new Error(...)`
Throw(m) == [_tag |-> "Throw", message |-> m]

isLeft(r) == r._tag = "Left"
isRight(r) == r._tag = "Right"
isSome(o) == o._tag = "Some"
isNone(o) == o._tag = "None"
\* x is a record: a value, or the exception met while computing it
isThrow(x) == "_tag" \in DOMAIN x /\ x._tag = "Throw"

(***************************************************************************)
(* Numbers: hundredths                                                     *)
(***************************************************************************)
Scale == 10 * 10
Num(n) == n * Scale
\* JavaScript qty * p.value on two numbers held in hundredths
Times(a, b) == (a * b) \div Scale
\* Number.isInteger
isInteger(i) == i % Scale = 0

(***************************************************************************)
(* Strings: sequences of characters                                        *)
(***************************************************************************)
Digits == {"0", "1", "2", "3", "4", "5", "6", "7", "8", "9"}
isDigit(c) == c \in Digits
isSpace(c) == c = " "

RECURSIVE trimStart(_)
trimStart(s) ==
  IF s # <<>> /\ isSpace(Head(s)) THEN trimStart(Tail(s)) ELSE s

RECURSIVE trimEnd(_)
trimEnd(s) ==
  IF s # <<>> /\ isSpace(s[Len(s)])
  THEN trimEnd(SubSeq(s, 1, Len(s) - 1))
  ELSE s

\* String.prototype.trim
trim(s) == trimEnd(trimStart(s))

\* String.prototype.startsWith with a one-character prefix
startsWith(s, c) == s # <<>> /\ s[1] = c

\* s is `count` digits from position `from` on
digitsAt(s, from, count) ==
  /\ from + count - 1 <= Len(s)
  /\ \A j \in from..(from + count - 1) : isDigit(s[j])

\* the product code patterns without their ^ and $ anchors
regexTestUnanchored(pattern, s) ==
  CASE pattern = ".+@.+" ->
         \E i \in 2..(Len(s) - 1) : s[i] = "@"
    [] pattern = "\\d{5}" ->
         \E i \in 1..(Len(s) - 4) : digitsAt(s, i, 5)
    [] pattern = "^W\\d{4}$" ->
         \E i \in 1..(Len(s) - 4) : s[i] = "W" /\ digitsAt(s, i + 1, 4)
    [] pattern = "^G\\d{3}$" ->
         \E i \in 1..(Len(s) - 3) : s[i] = "G" /\ digitsAt(s, i + 1, 3)

\* RegExp.prototype.test for the four patterns of the simple types
regexTest(pattern, s) ==
  CASE pattern = ".+@.+" ->
         \E i \in 2..(Len(s) - 1) : s[i] = "@"
    [] pattern = "\\d{5}" ->
         \E i \in 1..(Len(s) - 4) : digitsAt(s, i, 5)
    [] pattern = "^W\\d{4}$" ->
         Len(s) = 5 /\ s[1] = "W" /\ digitsAt(s, 2, 4)
    [] pattern = "^G\\d{3}$" ->
         Len(s) = 4 /\ s[1] = "G" /\ digitsAt(s, 2, 3)

(***************************************************************************)
(* Errors of the simple types                                              *)
(***************************************************************************)
\* `message` keeps the template and what is spliced into it
Msg(text, field, arg) == [text |-> text, field |-> field, arg |-> arg]

ConstrainedTypeError(fieldName, message) ==
  [_tag |-> "ConstrainedTypeError", fieldName |-> fieldName, message |-> message]

ProductCodeError(fieldName, message) ==
  [_tag |-> "ProductCodeError", fieldName |-> fieldName, message |-> message]

VipStatusError(fieldName, message) ==
  [_tag |-> "VipStatusError", fieldName |-> fieldName, message |-> message]

(***************************************************************************)
(* ConstrainedType: the reusable constructors                              *)
(***************************************************************************)
String50MaxLen == 50

\* JavaScript's null, which is no string: its one element is no character
null == <<"null">>
\* !str
isFalsy(str) == str = null \/ str = <<>>

\* the length test made with >= in place of >
createStringBelow(fieldName, ctor, maxLen, str) ==
  IF isFalsy(str)
  THEN Left(ConstrainedTypeError(fieldName,
              Msg("${fieldName} must not be null or empty", fieldName, <<>>)))
  ELSE IF Len(str) >= maxLen
  THEN Left(ConstrainedTypeError(fieldName,
              Msg("${fieldName} must not be more than ${maxLen} chars", fieldName, <<>>)))
  ELSE Right([_tag |-> ctor, value |-> str])

createString(fieldName, ctor, maxLen, str) ==
  IF isFalsy(str)
  THEN Left(ConstrainedTypeError(fieldName,
              Msg("${fieldName} must not be null or empty", fieldName, <<>>)))
  ELSE IF Len(str) > maxLen
  THEN Left(ConstrainedTypeError(fieldName,
              Msg("${fieldName} must not be more than ${maxLen} chars", fieldName, <<>>)))
  ELSE Right([_tag |-> ctor, value |-> str])

\* null told apart from the empty string and refused
createStringOptionOfNull(fieldName, ctor, maxLen, str) ==
  IF str = <<>>
  THEN Right(None)
  ELSE IF str = null \/ Len(str) > maxLen
  THEN Left(ConstrainedTypeError(fieldName,
              Msg("${fieldName} must not be more than ${maxLen} chars", fieldName, <<>>)))
  ELSE Right(Some([_tag |-> ctor, value |-> str]))

createStringOption(fieldName, ctor, maxLen, str) ==
  IF isFalsy(str)
  THEN Right(None)
  ELSE IF Len(str) > maxLen
  THEN Left(ConstrainedTypeError(fieldName,
              Msg("${fieldName} must not be more than ${maxLen} chars", fieldName, <<>>)))
  ELSE Right(Some([_tag |-> ctor, value |-> str]))

\* the second test compares with minVal, as the source does
createInt(fieldName, ctor, minVal, maxVal, i) ==
  IF ~isInteger(i)
  THEN Left(ConstrainedTypeError(fieldName,
              Msg("${fieldName} must be an integer", fieldName, <<>>)))
  ELSE IF i < minVal
  THEN Left(ConstrainedTypeError(fieldName,
              Msg("${fieldName} must not be less than ${minVal}", fieldName, <<>>)))
  ELSE IF i > minVal
  THEN Left(ConstrainedTypeError(fieldName,
              Msg("${fieldName} must not be more than ${maxVal}", fieldName, <<>>)))
  ELSE Right([_tag |-> ctor, value |-> i])

\* the second test compares with minVal, as the source does
createDecimal(fieldName, ctor, minVal, maxVal, i) ==
  IF i < minVal
  THEN Left(ConstrainedTypeError(fieldName,
              Msg("${fieldName} must not be less than ${minVal}", fieldName, <<>>)))
  ELSE IF i > minVal
  THEN Left(ConstrainedTypeError(fieldName,
              Msg("${fieldName} must not be more than ${maxVal}", fieldName, <<>>)))
  ELSE Right([_tag |-> ctor, value |-> i])

createLike(fieldName, ctor, pattern, str) ==
  IF isFalsy(str)
  THEN Left(ConstrainedTypeError(fieldName,
              Msg("${fieldName} must not be null or empty", fieldName, <<>>)))
  ELSE IF regexTest(pattern, str)
  THEN Right([_tag |-> ctor, value |-> str])
  ELSE Left(ConstrainedTypeError(fieldName,
              Msg("${fieldName}: '${str}' must match the pattern '${pattern}'", fieldName, str)))

(***************************************************************************)
(* The simple types                                                        *)
(***************************************************************************)
String50Create(fieldName, str) ==
  createString(fieldName, "String50", String50MaxLen, str)

String50CreateOption(fieldName, str) ==
  createStringOption(fieldName, "String50", String50MaxLen, str)

EmailAddressCreate(fieldName, str) ==
  createLike(fieldName, "EmailAddress", ".+@.+", str)

ZipCodeCreate(fieldName, str) ==
  createLike(fieldName, "ZipCode", "\\d{5}", str)

OrderIdCreate(fieldName, str) ==
  createString(fieldName, "OrderId", String50MaxLen, str)

OrderLineIdCreate(fieldName, str) ==
  createString(fieldName, "OrderLineId", String50MaxLen, str)

WidgetCodeCreate(fieldName, code) ==
  createLike(fieldName, "WidgetCode", "^W\\d{4}$", code)

GizmoCodeCreate(fieldName, code) ==
  createLike(fieldName, "GizmoCode", "^G\\d{3}$", code)

ProductCodeCreate(fieldName, code) ==
  IF code = <<>>
  THEN Left(ProductCodeError(fieldName,
              Msg("${fieldName} must not be null or empty", fieldName, <<>>)))
  ELSE IF startsWith(code, "W") THEN WidgetCodeCreate(fieldName, code)
  ELSE IF startsWith(code, "G") THEN GizmoCodeCreate(fieldName, code)
  ELSE Left(ProductCodeError(fieldName,
              Msg("${fieldName}: format not regonised '${code}'", fieldName, code)))

UnitQuantityMin == 1
UnitQuantityMax == 1000
KilogramQuantityMin == 5
KilogramQuantityMax == 100

UnitQuantityCreate(fieldName, v) ==
  createInt(fieldName, "UnitQuantity", Num(UnitQuantityMin), Num(UnitQuantityMax), v)

\* 0.05 is KilogramQuantityMin hundredths
KilogramQuantityCreate(fieldName, v) ==
  createDecimal(fieldName, "KilogramQuantity", KilogramQuantityMin,
                Num(KilogramQuantityMax), v)

\* every product counted in units
OrderQuantityCreateUnits(fieldName, productCode, quantity) ==
  UnitQuantityCreate(fieldName, quantity)

OrderQuantityCreate(fieldName, productCode, quantity) ==
  CASE productCode._tag = "WidgetCode" -> UnitQuantityCreate(fieldName, quantity)
    [] productCode._tag = "GizmoCode" -> KilogramQuantityCreate(fieldName, quantity)

PriceMin == 0
PriceMax == 1000
BillingAmountMin == 0
BillingAmountMax == 10000

PriceCreate(v) ==
  createDecimal("Price", "Price", Num(PriceMin), Num(PriceMax), v)

\* v is the literal of the source, in whole units
PriceUnsafeCreate(v) ==
  LET result == PriceCreate(Num(v))
  IN  CASE result._tag = "Right" -> result.right
        [] result._tag = "Left" ->
             Throw(Msg("Not expecting Price to be out of bounds: ${result.left}",
                       "Price", <<>>))

PriceMultiply(qty, p) == PriceCreate(Times(qty, p.value))

BillingAmountCreate(v) ==
  createDecimal("BillingAmount", "BillingAmount", Num(BillingAmountMin),
                Num(BillingAmountMax), v)

RECURSIVE reduceSum(_, _)
reduceSum(prices, acc) ==
  IF prices = <<>> THEN acc ELSE reduceSum(Tail(prices), acc + Head(prices).value)

sumPrices(prices) == BillingAmountCreate(reduceSum(prices, 0))

(***************************************************************************)
(* VipStatus and UsStateCode: used by the workflow but their constructors  *)
(* are in no source file at hand; modelled from the domain description     *)
(* ("Vip" / "Normal"; a US state code).                                    *)
(***************************************************************************)
s_Normal == <<"N", "o", "r", "m", "a", "l">>
s_Vip == <<"V", "i", "p">>
s_CA == <<"C", "A">>
s_OR == <<"O", "R">>
s_AZ == <<"A", "Z">>
s_NV == <<"N", "V">>
s_NY == <<"N", "Y">>
s_US == <<"U", "S">>
s_FR == <<"F", "R">>
UsStates == {s_CA, s_OR, s_AZ, s_NV, s_NY}

VipStatusCreate(fieldName, str) ==
  IF str = s_Normal THEN Right("Normal")
  ELSE IF str = s_Vip THEN Right("Vip")
  ELSE Left(VipStatusError(fieldName,
              Msg("${fieldName}: vip status not recognised", fieldName, str)))

UsStateCodeCreate(fieldName, str) ==
  IF isFalsy(str)
  THEN Left(ConstrainedTypeError(fieldName,
              Msg("${fieldName} must not be null or empty", fieldName, <<>>)))
  ELSE IF str \in UsStates
  THEN Right([_tag |-> "UsStateCode", value |-> str])
  ELSE Left(ConstrainedTypeError(fieldName,
              Msg("${fieldName}: '${str}' must match the pattern '${pattern}'", fieldName, str)))

(***************************************************************************)
(* PlaceOrder errors (place-order.public-types)                            *)
(***************************************************************************)
ValidationError(fieldName, message) ==
  [_tag |-> "ValidationError", fieldName |-> fieldName, message |-> message]

ValidationErrorFromOtherErrors(e) == ValidationError(e.fieldName, e.message)

\* builds a ValidationError, as the source does
PricingErrorFromOtherErrors(e) == ValidationError(e.fieldName, e.message)

\* E.mapLeft
mapLeftValidation(r) ==
  IF isLeft(r) THEN Left(ValidationErrorFromOtherErrors(r.left)) ELSE r

mapLeftPricing(r) ==
  IF isLeft(r) THEN Left(PricingErrorFromOtherErrors(r.left)) ELSE r

\* the first Left of a chain of E.bind steps, each given as an Either
hasLeft(rs) == \E i \in 1..Len(rs) : isLeft(rs[i])
firstLeft(rs) ==
  rs[CHOOSE i \in 1..Len(rs) : isLeft(rs[i]) /\ \A j \in 1..(i - 1) : ~isLeft(rs[j])]

\* the last Left in list order instead of the first
sequenceEitherLast(rs) ==
  IF hasLeft(rs)
  THEN rs[CHOOSE i \in 1..Len(rs) : isLeft(rs[i]) /\ \A j \in (i + 1)..Len(rs) : ~isLeft(rs[j])]
  ELSE Right([i \in 1..Len(rs) |-> rs[i].right])

\* A.sequence(E.Applicative): the first Left in list order, or all the rights
sequenceEither(rs) ==
  IF hasLeft(rs) THEN firstLeft(rs)
  ELSE Right([i \in 1..Len(rs) |-> rs[i].right])

(***************************************************************************)
(* ValidateOrder step                                                      *)
(***************************************************************************)
\* the vipStatus bind moved in front of the others
toCustomerInfoVipFirst(u) ==
  LET firstName == mapLeftValidation(String50Create("firstName", u.firstName))
      lastName == mapLeftValidation(String50Create("lastName", u.lastName))
      emailAddress == mapLeftValidation(EmailAddressCreate("emailAddress", u.emailAddress))
      vipStatus == mapLeftValidation(VipStatusCreate("vipStatus", u.vipStatus))
      steps == <<vipStatus, firstName, lastName, emailAddress>>
  IN  IF hasLeft(steps) THEN firstLeft(steps)
      ELSE Right([_tag |-> "CustomerInfo",
                  name |-> [_tag |-> "PersonalName",
                            firstName |-> firstName.right,
                            lastName |-> lastName.right],
                  emailAddress |-> emailAddress.right,
                  vipStatus |-> vipStatus.right])

toCustomerInfo(u) ==
  LET firstName == mapLeftValidation(String50Create("firstName", u.firstName))
      lastName == mapLeftValidation(String50Create("lastName", u.lastName))
      emailAddress == mapLeftValidation(EmailAddressCreate("emailAddress", u.emailAddress))
      vipStatus == mapLeftValidation(VipStatusCreate("vipStatus", u.vipStatus))
      steps == <<firstName, lastName, emailAddress, vipStatus>>
  IN  IF hasLeft(steps) THEN firstLeft(steps)
      ELSE Right([_tag |-> "CustomerInfo",
                  name |-> [_tag |-> "PersonalName",
                            firstName |-> firstName.right,
                            lastName |-> lastName.right],
                  emailAddress |-> emailAddress.right,
                  vipStatus |-> vipStatus.right])

toAddress(checkedAddress) ==
  LET a == checkedAddress.value
      addressLine1 == mapLeftValidation(String50Create("AddressLine1", a.addressLine1))
      addressLine2 == mapLeftValidation(String50CreateOption("AddressLine2", a.addressLine2))
      addressLine3 == mapLeftValidation(String50CreateOption("AddressLine3", a.addressLine3))
      addressLine4 == mapLeftValidation(String50CreateOption("AddressLine4", a.addressLine4))
      city == mapLeftValidation(String50Create("City", a.city))
      zipCode == mapLeftValidation(ZipCodeCreate("ZipCode", a.zipCode))
      state == mapLeftValidation(UsStateCodeCreate("State", a.state))
      country == mapLeftValidation(String50Create("Country", a.country))
      steps == <<addressLine1, addressLine2, addressLine3, addressLine4,
                 city, zipCode, state, country>>
  IN  IF hasLeft(steps) THEN firstLeft(steps)
      ELSE Right([_tag |-> "Address",
                  addressLine1 |-> addressLine1.right,
                  addressLine2 |-> addressLine2.right,
                  addressLine3 |-> addressLine3.right,
                  addressLine4 |-> addressLine4.right,
                  city |-> city.right,
                  zipCode |-> zipCode.right,
                  state |-> state.right,
                  country |-> country.right])

\* the two messages exchanged
toCheckedAddressSwapped(checkResult) ==
  IF isLeft(checkResult)
  THEN CASE checkResult.left._tag = "AddressNotFound" ->
              Left(ValidationError("", Msg("Address has bad format", "", <<>>)))
         [] checkResult.left._tag = "InvalidFormat" ->
              Left(ValidationError("", Msg("Address not found", "", <<>>)))
  ELSE checkResult

\* checkResult is what the awaited checkAddressExists(address) gave
toCheckedAddress(checkResult) ==
  IF isLeft(checkResult)
  THEN CASE checkResult.left._tag = "AddressNotFound" ->
              Left(ValidationError("", Msg("Address not found", "", <<>>)))
         [] checkResult.left._tag = "InvalidFormat" ->
              Left(ValidationError("", Msg("Address has bad format", "", <<>>)))
  ELSE checkResult

toOrderId(orderId) == mapLeftValidation(OrderIdCreate("OrderId", orderId))

toOrderLineId(orderLineId) ==
  mapLeftValidation(OrderLineIdCreate("OrderLineId", orderLineId))

\* existing: the product code strings checkProductCodeExists answers true for
checkProductCodeExists(existing, code) == code.value \in existing

toProductCode(existing, productCode) ==
  LET created == mapLeftValidation(ProductCodeCreate("ProductCode", productCode))
  IN  IF isLeft(created) THEN created
      ELSE IF checkProductCodeExists(existing, created.right)
      THEN Right(created.right)
      ELSE Left(ValidationError("", Msg("Invalid: ${productCode}", "", productCode)))

toOrderQuantity(productCode, quantity) ==
  mapLeftValidation(OrderQuantityCreate("OrderQuantity", productCode, quantity))

toValidatedOrderLine(existing, unvalidatedOrderLine) ==
  LET orderLineId == toOrderLineId(unvalidatedOrderLine.orderLineId)
      productCode == toProductCode(existing, unvalidatedOrderLine.productCode)
  IN  IF isLeft(orderLineId) THEN orderLineId
      ELSE IF isLeft(productCode) THEN productCode
      ELSE LET quantity == toOrderQuantity(productCode.right,
                                           unvalidatedOrderLine.quantity)
           IN  IF isLeft(quantity) THEN quantity
               ELSE Right([orderLineId |-> orderLineId.right,
                           productCode |-> productCode.right,
                           quantity |-> quantity.right])

\* the "lines" bind of validateOrder
toValidatedOrderLines(existing, lines) ==
  sequenceEither([i \in 1..Len(lines) |-> toValidatedOrderLine(existing, lines[i])])

(***************************************************************************)
(* Pricing (place-order.pricing)                                           *)
(***************************************************************************)
Standard == [_tag |-> "Standard"]
PromotionCode(value) == [_tag |-> "PromotionCode", value |-> value]

\* the test of the trimmed string selects "Standard" when it is truthy
createPricingMethod(promotionCode) ==
  IF trim(promotionCode) # <<>>
  THEN Standard
  ELSE PromotionCode(promotionCode)

Price(v) == [_tag |-> "Price", value |-> v]

\* the promotional prices never looked at
getPricingFunctionStandardOnly(tables, pricingMethod, productCode) ==
  tables.std[productCode._tag]

\* tables: std, the standard price of each product code variant; promo, the
\* promotional price of each variant, or None
getPricingFunction(tables, pricingMethod, productCode) ==
  IF pricingMethod = Standard
  THEN tables.std[productCode._tag]
  ELSE LET price == tables.promo[productCode._tag]
       IN  CASE price._tag = "Some" -> price.value
             [] price._tag = "None" -> tables.std[productCode._tag]

(***************************************************************************)
(* PriceOrder step                                                         *)
(***************************************************************************)
\* getProductPrice is getPricingFunction(tables, pricingMethod, _)
toPricedOrderLine(tables, pricingMethod, validatedOrderLine) ==
  LET price == getPricingFunction(tables, pricingMethod, validatedOrderLine.productCode)
      linePrice == mapLeftValidation(PriceMultiply(validatedOrderLine.quantity.value, price))
  IN  IF isLeft(linePrice) THEN linePrice
      ELSE Right([_tag |-> "PricedOrderProductLine",
                  orderLineId |-> validatedOrderLine.orderLineId,
                  productCode |-> validatedOrderLine.productCode,
                  quantity |-> validatedOrderLine.quantity,
                  linePrice |-> linePrice.right])

CommentLine(pricingMethod) ==
  [_tag |-> "CommentLine",
   value |-> Msg("Applied promotion ${pricingMethod.value}", "", pricingMethod.value)]

\* the comment line put first
addCommentLineFirst(pricingMethod, lines) ==
  IF pricingMethod = Standard
  THEN lines
  ELSE <<CommentLine(pricingMethod)>> \o lines

addCommentLine(pricingMethod, lines) ==
  IF pricingMethod = Standard
  THEN lines
  ELSE lines \o <<CommentLine(pricingMethod)>>

getLinePrice(line) ==
  CASE line._tag = "PricedOrderProductLine" -> line.linePrice
    [] line._tag = "CommentLine" -> PriceUnsafeCreate(0)

priceOrder(tables, validatedOrder) ==
  LET priced == sequenceEither(
                  [i \in 1..Len(validatedOrder.lines) |->
                     toPricedOrderLine(tables, validatedOrder.pricingMethod,
                                       validatedOrder.lines[i])])
  IN  IF isLeft(priced) THEN priced
      ELSE
        LET lines == addCommentLine(validatedOrder.pricingMethod, priced.right)
            prices == [i \in 1..Len(lines) |-> getLinePrice(lines[i])]
        IN  IF \E i \in 1..Len(prices) : isThrow(prices[i])
            THEN prices[CHOOSE i \in 1..Len(prices) : isThrow(prices[i])]
            ELSE
              LET amountToBill == mapLeftPricing(sumPrices(prices))
              IN  IF isLeft(amountToBill) THEN amountToBill
                  ELSE Right([_tag |-> "PricedOrder",
                              orderId |-> validatedOrder.orderId,
                              customerInfo |-> validatedOrder.customerInfo,
                              shippingAddress |-> validatedOrder.shippingAddress,
                              billingAddress |-> validatedOrder.billingAddress,
                              pricingMethod |-> validatedOrder.pricingMethod,
                              lines |-> lines,
                              amountToBill |-> amountToBill.right])

(***************************************************************************)
(* Shipping step                                                           *)
(***************************************************************************)
UsLocalStateCost == 5
UsRemoteStateCost == 10
InternationalCost == 20

getUsStateClassification(address) ==
  IF address.country.value = s_US
  THEN IF address.state.value \in {s_CA, s_OR, s_AZ, s_NV}
       THEN "UsLocalState"
       ELSE "UsRemoteState"
  ELSE "International"

\* a Price, or the exception of Price.unsafeCreate
calculateShippingCost(pricedOrder) ==
  LET class == getUsStateClassification(pricedOrder.shippingAddress)
  IN  CASE class = "UsLocalState" -> PriceUnsafeCreate(UsLocalStateCost)
        [] class = "UsRemoteState" -> PriceUnsafeCreate(UsRemoteStateCost)
        [] class = "International" -> PriceUnsafeCreate(InternationalCost)

\* with calculateShippingCost as placeOrder passes it
addShippingInfoToOrder(pricedOrder) ==
  LET shippingCost == calculateShippingCost(pricedOrder)
  IN  IF isThrow(shippingCost) THEN shippingCost
      ELSE [pricedOrder |-> pricedOrder,
            shippingInfo |-> [shippingMethod |-> "Fedex24",
                              shippingCost |-> shippingCost]]

(***************************************************************************)
(* VIP shipping step                                                       *)
(***************************************************************************)
\* the VIP's order also billed nothing
freeVipShippingAndBilling(order) ==
  CASE order.pricedOrder.customerInfo.vipStatus = "Normal" -> order
    [] order.pricedOrder.customerInfo.vipStatus = "Vip" ->
         LET shippingCost == PriceUnsafeCreate(0)
         IN  IF isThrow(shippingCost) THEN shippingCost
             ELSE [order EXCEPT
                     !.shippingInfo =
                       [shippingMethod |-> "Fedex24", shippingCost |-> shippingCost],
                     !.pricedOrder.amountToBill.value = 0]

freeVipShipping(order) ==
  CASE order.pricedOrder.customerInfo.vipStatus = "Normal" -> order
    [] order.pricedOrder.customerInfo.vipStatus = "Vip" ->
         LET shippingCost == PriceUnsafeCreate(0)
         IN  IF isThrow(shippingCost) THEN shippingCost
             ELSE [order EXCEPT !.shippingInfo =
                     [shippingMethod |-> "Fedex24", shippingCost |-> shippingCost]]

(***************************************************************************)
(* AcknowledgeOrder step                                                   *)
(***************************************************************************)
\* letter: what createOrderAcknowledgmentLetter returned
OrderAcknowledgment(pricedOrderWithShipping, letter) ==
  [_tag |-> "OrderAcknowledgement",
   emailAddress |-> pricedOrderWithShipping.pricedOrder.customerInfo.emailAddress,
   letter |-> letter]

\* sendResult: what sendOrderAcknowledgement returned for the acknowledgement
acknowledgeOrder(sendResult, pricedOrderWithShipping) ==
  CASE sendResult = "Sent" ->
         Some([_tag |-> "OrderAcknowledgementSent",
               orderId |-> pricedOrderWithShipping.pricedOrder.orderId,
               emailAddress |->
                 pricedOrderWithShipping.pricedOrder.customerInfo.emailAddress])
    [] sendResult = "NotSent" -> None

(***************************************************************************)
(* Create events                                                           *)
(***************************************************************************)
\* a comment line shipped like a product line
makeShipmentLineOfAny(line) ==
  Some([line EXCEPT !._tag = "ShippableOrderLine"])

makeShipmentLine(line) ==
  CASE line._tag = "PricedOrderProductLine" ->
         Some([line EXCEPT !._tag = "ShippableOrderLine"])
    [] line._tag = "CommentLine" -> None

\* A.filter
RECURSIVE filterSome(_)
filterSome(opts) ==
  IF opts = <<>> THEN <<>>
  ELSE IF isSome(Head(opts)) THEN <<Head(opts)>> \o filterSome(Tail(opts))
  ELSE filterSome(Tail(opts))

\* A.sequence(O.Applicative), then O.toNullable(...) || []
sequenceOptionOrEmpty(opts) ==
  IF \E i \in 1..Len(opts) : isNone(opts[i])
  THEN <<>>
  ELSE [i \in 1..Len(opts) |-> opts[i].value]

createShippingEvent(pricedOrder) ==
  [_tag |-> "ShippableOrderPlaced",
   orderId |-> pricedOrder.orderId,
   shippingAddress |-> pricedOrder.shippingAddress,
   shipmentLines |->
     sequenceOptionOrEmpty(
       filterSome([i \in 1..Len(pricedOrder.lines) |->
                     makeShipmentLine(pricedOrder.lines[i])])),
   pdf |-> [name |-> Msg("Order${orderId.value}.pdf", "", pricedOrder.orderId.value),
            bytes |-> <<>>]]

\* the test made with >= in place of >
createBillingEventFromZero(pricedOrder) ==
  IF pricedOrder.amountToBill.value >= 0
  THEN Some([_tag |-> "BillableOrderPlaced",
             orderId |-> pricedOrder.orderId,
             amountToBill |-> pricedOrder.amountToBill,
             billingAddress |-> pricedOrder.billingAddress])
  ELSE None

createBillingEvent(pricedOrder) ==
  IF pricedOrder.amountToBill.value > 0
  THEN Some([_tag |-> "BillableOrderPlaced",
             orderId |-> pricedOrder.orderId,
             amountToBill |-> pricedOrder.amountToBill,
             billingAddress |-> pricedOrder.billingAddress])
  ELSE None

listOfOption(opt) ==
  IF isNone(opt) THEN <<>> ELSE <<opt.value>>

\* the billing events put before the shipment event
createEventsBillingFirst(pricedOrder, acknowledgemententEventOpt) ==
  listOfOption(acknowledgemententEventOpt)
    \o listOfOption(createBillingEvent(pricedOrder))
    \o <<createShippingEvent(pricedOrder)>>

\* the shipment event left out of the list
createEventsWithoutShipment(pricedOrder, acknowledgemententEventOpt) ==
  listOfOption(acknowledgemententEventOpt)
    \o listOfOption(createBillingEvent(pricedOrder))

createEvents(pricedOrder, acknowledgemententEventOpt) ==
  LET acknowledgemententEvents == listOfOption(acknowledgemententEventOpt)
      orderPlacedEvent == createShippingEvent(pricedOrder)
      billingEvents == listOfOption(createBillingEvent(pricedOrder))
  IN  acknowledgemententEvents \o <<orderPlacedEvent>> \o billingEvents

(***************************************************************************)
(* DTOs and the HTTP response (place-order.dto, place-order.api)           *)
(***************************************************************************)
\* toAddress of the DTO module, from an AddressDto
AddressDto_toAddress(dto) ==
  LET addressLine1 == mapLeftValidation(String50Create("AddressLine1", dto.addressLine1))
      addressLine2 == mapLeftValidation(String50CreateOption("AddressLine2", dto.addressLine2))
      addressLine3 == mapLeftValidation(String50CreateOption("AddressLine3", dto.addressLine3))
      addressLine4 == mapLeftValidation(String50CreateOption("AddressLine4", dto.addressLine4))
      city == mapLeftValidation(String50Create("city", dto.city))
      zipCode == mapLeftValidation(ZipCodeCreate("ZipCode", dto.zipCode))
      state == mapLeftValidation(UsStateCodeCreate("UsStateCode", dto.state))
      country == mapLeftValidation(String50Create("Country", dto.country))
      steps == <<addressLine1, addressLine2, addressLine3, addressLine4,
                 city, zipCode, state, country>>
  IN  IF hasLeft(steps) THEN firstLeft(steps)
      ELSE Right([_tag |-> "Address",
                  addressLine1 |-> addressLine1.right,
                  addressLine2 |-> addressLine2.right,
                  addressLine3 |-> addressLine3.right,
                  addressLine4 |-> addressLine4.right,
                  city |-> city.right,
                  zipCode |-> zipCode.right,
                  state |-> state.right,
                  country |-> country.right])

\* lines 3 and 4 are read from addressLine2, as the source does
fromAddress(domainObj) ==
  LET line(o) == IF isNone(o) THEN <<>> ELSE o.value.value
  IN  [addressLine1 |-> domainObj.addressLine1.value,
       addressLine2 |-> line(domainObj.addressLine2),
       addressLine3 |-> line(domainObj.addressLine2),
       addressLine4 |-> line(domainObj.addressLine2),
       city |-> domainObj.city.value,
       zipCode |-> domainObj.zipCode.value,
       state |-> domainObj.state.value,
       country |-> domainObj.country.value]

shippableOrderPlacedDtoFromShippableOrderLine(domainObj) ==
  [productCode |-> domainObj.productCode.value,
   quantity |-> domainObj.quantity.value]

shippableOrderPlacedDtoFromDomain(domainObj) ==
  [orderId |-> domainObj.orderId.value,
   shippingAddress |-> fromAddress(domainObj.shippingAddress),
   shipmentLines |->
     [i \in 1..Len(domainObj.shipmentLines) |->
        shippableOrderPlacedDtoFromShippableOrderLine(domainObj.shipmentLines[i])],
   pdf |-> domainObj.pdf]

billableOrderPlacedDtoFromDomain(domainObj) ==
  [orderId |-> domainObj.orderId.value,
   billingAddress |-> fromAddress(domainObj.billingAddress),
   amountToBill |-> domainObj.amountToBill.value]

orderAcknowledgementSentDtoFromDomain(domainObj) ==
  [orderId |-> domainObj.orderId.value,
   emailAddress |-> domainObj.emailAddress.value]

placeOrderEventDtoFromDomain(domainObj) ==
  CASE domainObj._tag = "ShippableOrderPlaced" ->
         [shippableOrderPlaced |-> shippableOrderPlacedDtoFromDomain(domainObj)]
    [] domainObj._tag = "BillableOrderPlaced" ->
         [billableOrderPlaced |-> billableOrderPlacedDtoFromDomain(domainObj)]
    [] domainObj._tag = "OrderAcknowledgementSent" ->
         [orderAcknowledgementSent |-> orderAcknowledgementSentDtoFromDomain(domainObj)]

\* instanceof follows the class the error was built with, held in _tag
placeOrderErrorDtoFromDomain(domainObj) ==
  CASE domainObj._tag = "ValidationError" ->
         [code |-> "ValidationError", message |-> domainObj.message]
    [] domainObj._tag = "PricingError" ->
         [code |-> "PricingError", message |-> domainObj.message]
    [] domainObj._tag = "RemoteServiceError" ->
         [code |-> "RemoteServiceError", message |-> domainObj.message]
    [] OTHER ->
         Throw(Msg("unknown error: unable to convert to data transfer object", "", <<>>))

\* JSON.stringify: the text from which JSON.parse gives the value back
serializeJson(value) == [json |-> value]

\* Object.prototype.toString of a plain object
objectToString(obj) == "[object Object]"

\* Array.prototype.toString: the elements' toString, joined by ","
arrayToString(objs) ==
  [joined |-> [i \in 1..Len(objs) |-> objectToString(objs[i])], separator |-> ","]

\* result: the Either the workflow settled with
workflowResultToHttpReponse(workflowResult) ==
  CASE workflowResult._tag = "Left" ->
         LET dto == placeOrderErrorDtoFromDomain(workflowResult.left)
         IN  IF isThrow(dto) THEN dto
             ELSE [httpStatusCode |-> 401, body |-> serializeJson(dto)]
    [] workflowResult._tag = "Right" ->
         [httpStatusCode |-> 200,
          body |-> arrayToString(
                     [i \in 1..Len(workflowResult.right) |->
                        placeOrderEventDtoFromDomain(workflowResult.right[i])])]

(***************************************************************************)
(* Inputs                                                                  *)
(***************************************************************************)
\* order lines per order
MaxLines == 2
\* a unit price above zero that the price lookup may answer
UnitPrice == 10

s_A1 == <<"A", "1">>
s_Al == <<"A", "l">>
s_Roe == <<"R", "o", "e">>
s_mail == <<"a", "@", "b">>
s_Main == <<"1", " ", "M">>
s_LA == <<"L", "A">>
s_12345 == <<"1", "2", "3", "4", "5">>
s_1234 == <<"1", "2", "3", "4">>
s_123456 == <<"1", "2", "3", "4", "5", "6">>
s_W1234 == <<"W", "1", "2", "3", "4">>
s_G123 == <<"G", "1", "2", "3">>
s_Gold == <<"G", "o", "l", "d">>
s_HALF == <<"H", "A", "L", "F">>
s_blank == <<" ">>

UnvalidatedCustomerInfo(firstName, vipStatus) ==
  [firstName |-> firstName, lastName |-> s_Roe,
   emailAddress |-> s_mail, vipStatus |-> vipStatus]

UnvalidatedAddress(zipCode, state, country) ==
  [addressLine1 |-> s_Main, addressLine2 |-> <<>>, addressLine3 |-> <<>>,
   addressLine4 |-> <<>>, city |-> s_LA, zipCode |-> zipCode,
   state |-> state, country |-> country]

UnvalidatedOrderLine(orderLineId, productCode, quantity) ==
  [orderLineId |-> orderLineId, productCode |-> productCode, quantity |-> quantity]

OrderIds == {<<>>, s_A1}
CustomerInfos ==
  {UnvalidatedCustomerInfo(s_Al, s_Normal), UnvalidatedCustomerInfo(s_Al, s_Vip),
   UnvalidatedCustomerInfo(s_Al, s_Gold), UnvalidatedCustomerInfo(<<>>, s_Normal),
   UnvalidatedCustomerInfo(<<>>, s_Gold)}
ShippingAddresses ==
  {UnvalidatedAddress(s_12345, s_CA, s_US), UnvalidatedAddress(s_12345, s_NY, s_US),
   UnvalidatedAddress(s_12345, s_CA, s_FR), UnvalidatedAddress(s_1234, s_CA, s_US),
   UnvalidatedAddress(s_123456, s_CA, s_US), UnvalidatedAddress(s_1234, s_Gold, s_US)}
BillingAddresses ==
  {UnvalidatedAddress(s_12345, s_CA, s_US), UnvalidatedAddress(s_1234, s_CA, s_US),
   UnvalidatedAddress(s_123456, s_CA, s_US)}
\* one Widget, 0.05 kg of Gizmo, two Widgets
LineChoices ==
  {UnvalidatedOrderLine(<<"1">>, s_W1234, Num(1)),
   UnvalidatedOrderLine(<<"2">>, s_G123, KilogramQuantityMin),
   UnvalidatedOrderLine(<<"3">>, s_W1234, Num(2))}
\* as many one-Widget lines as it takes to pass BillingAmountMax at PriceMax each
ManyLines ==
  [i \in 1..(BillingAmountMax \div PriceMax + 1) |->
     UnvalidatedOrderLine(<<"1">>, s_W1234, Num(1))]
LineLists ==
  UNION {[1..k -> LineChoices] : k \in 0..MaxLines} \cup {ManyLines}
PromotionCodes == {<<>>, s_blank, s_HALF}

UnvalidatedOrders ==
  {[orderId |-> oid, customerInfo |-> ci, shippingAddress |-> sa,
    billingAddress |-> ba, lines |-> ls, promotionCode |-> pc] :
     oid \in OrderIds, ci \in CustomerInfos, sa \in ShippingAddresses,
     ba \in BillingAddresses, ls \in LineLists, pc \in PromotionCodes}

\* what the injected dependencies may answer
AddressCheckOutcomes == {"Ok", "AddressNotFound", "InvalidFormat"}
checkAddressExists(outcome, address) ==
  IF outcome = "Ok"
  THEN Right([_tag |-> "CheckedAddress", value |-> address])
  ELSE Left([_tag |-> outcome, value |-> <<>>])
ExistingProducts == {{s_W1234, s_G123}, {s_W1234}}
PriceTables ==
  {[std |-> [WidgetCode |-> Price(w), GizmoCode |-> Price(g)],
    promo |-> [WidgetCode |-> pw, GizmoCode |-> None]] :
     w \in {0, Num(UnitPrice), Num(PriceMax)}, g \in {0, Num(UnitPrice)},
     pw \in {None, Some(Price(0))}}
SendResults == {"Sent", "NotSent"}
HtmlLetter == [_tag |-> "HtmlString", value |-> <<"o", "k">>]

\* well-typed values for a call of the later steps on their own
TypedAddress == toAddress([value |-> UnvalidatedAddress(s_12345, s_CA, s_US)]).right
TypedCustomerInfo(vipStatus) ==
  toCustomerInfo(UnvalidatedCustomerInfo(s_Al, vipStatus)).right
TypedProductLines ==
  {[_tag |-> "PricedOrderProductLine",
    orderLineId |-> [_tag |-> "OrderLineId", value |-> <<"1">>],
    productCode |-> [_tag |-> "WidgetCode", value |-> s_W1234],
    quantity |-> [_tag |-> "UnitQuantity", value |-> Num(2)],
    linePrice |-> Price(Num(2 * UnitPrice))],
   [_tag |-> "PricedOrderProductLine",
    orderLineId |-> [_tag |-> "OrderLineId", value |-> <<"2">>],
    productCode |-> [_tag |-> "GizmoCode", value |-> s_G123],
    quantity |-> [_tag |-> "KilogramQuantity", value |-> KilogramQuantityMin],
    linePrice |-> Price(0)]}
TypedPricedOrders ==
  {[_tag |-> "PricedOrder",
    orderId |-> [_tag |-> "OrderId", value |-> s_A1],
    customerInfo |-> TypedCustomerInfo(vip),
    shippingAddress |-> TypedAddress,
    billingAddress |-> TypedAddress,
    pricingMethod |-> pm,
    lines |-> addCommentLine(pm, ls),
    amountToBill |-> [_tag |-> "BillingAmount", value |-> reduceSum(
                        [i \in 1..Len(ls) |-> ls[i].linePrice], 0)]] :
     vip \in {s_Normal, s_Vip},
     pm \in {Standard, PromotionCode(s_HALF)},
     ls \in UNION {[1..k -> TypedProductLines] : k \in 0..MaxLines}}
TypedValidatedLines ==
  {[orderLineId |-> l.orderLineId, productCode |-> l.productCode,
    quantity |-> l.quantity] : l \in TypedProductLines}
TypedValidatedOrders ==
  {[orderId |-> [_tag |-> "OrderId", value |-> s_A1],
    customerInfo |-> TypedCustomerInfo(s_Normal),
    shippingAddress |-> TypedAddress,
    billingAddress |-> TypedAddress,
    lines |-> ls,
    pricingMethod |-> pm] :
     pm \in {Standard, PromotionCode(s_HALF)},
     ls \in UNION {[1..k -> TypedValidatedLines] : k \in 0..MaxLines}}
ShippingMethods == {"PostalService", "Fedex24", "Fedex48", "Ups48"}
TypedPricedOrdersWithShipping ==
  {[pricedOrder |-> po,
    shippingInfo |-> [shippingMethod |-> m, shippingCost |-> Price(Num(c))]] :
     po \in TypedPricedOrders, m \in ShippingMethods,
     c \in {0, UsLocalStateCost}}

\* arguments for a call of one constructor of the simple types on its own
repeat(c, n) == [i \in 1..n |-> c]
StringInputs ==
  {<<>>, <<"a">>, <<" ", "a", " ">>, s_Roe,
   repeat("a", String50MaxLen - 1), repeat("a", String50MaxLen),
   repeat("a", String50MaxLen + 1), repeat("b", String50MaxLen + String50MaxLen)}
CodeInputs ==
  {<<>>, s_W1234, s_G123, <<"W">>, <<"G">>,
   <<"W", "1", "2", "3">>, <<"W", "1", "2", "3", "4", "5">>,
   <<"W", "1", "2", "3", "x">>, <<"G", "1", "2">>, <<"G", "1", "2", "3", "4">>,
   s_Gold, <<"X", "0", "0", "1">>, <<"w", "1", "2", "3", "4">>,
   <<"1", "2", "3", "4", "5">>, <<" ", "W", "1", "2", "3", "4">>}
TypedProductCodes ==
  {[_tag |-> "WidgetCode", value |-> s_W1234], [_tag |-> "GizmoCode", value |-> s_G123]}
\* around the bounds of both quantities, whole and fractional
QuantityInputs ==
  {0 - Scale, 0, KilogramQuantityMin - 1, KilogramQuantityMin, KilogramQuantityMin + 1,
   Num(UnitQuantityMin), Num(UnitQuantityMin) + Scale \div 2, Num(2),
   Num(KilogramQuantityMax), Num(KilogramQuantityMax) + 1,
   Num(UnitQuantityMax), Num(UnitQuantityMax) + Scale}
\* around the bounds of Price and BillingAmount
DecimalInputs ==
  {0 - 1, 0, 1, Num(UnitPrice), Num(PriceMax), Num(PriceMax) + 1,
   Num(BillingAmountMax), Num(BillingAmountMax) + 1}
PriceInputs == {Price(0), Price(Num(UnitPrice)), Price(Num(PriceMax))}
PriceLists ==
  UNION {[1..k -> PriceInputs] : k \in 0..MaxLines}
    \cup {repeat(Price(Num(PriceMax)), BillingAmountMax \div PriceMax),
          repeat(Price(Num(PriceMax)), BillingAmountMax \div PriceMax + 1)}
\* AddressDtos with each of the optional lines present or absent
AddressDtos ==
  {[addressLine1 |-> s_Main, addressLine2 |-> l2, addressLine3 |-> l3,
    addressLine4 |-> l4, city |-> s_LA, zipCode |-> z, state |-> st,
    country |-> s_US] :
     l2 \in {<<>>, <<"2">>}, l3 \in {<<>>, <<"2">>, <<"3">>}, l4 \in {<<>>, <<"2">>, <<"4">>},
     z \in {s_12345, s_1234}, st \in {s_CA, s_Gold}}
SimpleTypeInputs ==
  [String50Create |-> {[str |-> x] : x \in StringInputs},
   String50CreateOption |-> {[str |-> x] : x \in StringInputs \cup {null}},
   ProductCodeCreate |-> {[code |-> x] : x \in CodeInputs},
   OrderQuantityCreate |->
     {[productCode |-> c, quantity |-> q] : c \in TypedProductCodes, q \in QuantityInputs},
   PriceCreate |-> {[v |-> x] : x \in DecimalInputs},
   BillingAmountCreate |-> {[v |-> x] : x \in DecimalInputs},
   PriceMultiply |->
     {[qty |-> q, p |-> x] : q \in {0 - Scale, 0, Scale \div 2, Num(1), Num(2)},
                             x \in PriceInputs},
   sumPrices |-> {[prices |-> x] : x \in PriceLists},
   fromAddress |-> {[dto |-> x] : x \in AddressDtos},
   getPricingFunction |->
     {[tables |-> t, pricingMethod |-> pm, productCode |-> c] :
        t \in PriceTables, pm \in {Standard, PromotionCode(s_HALF)},
        c \in TypedProductCodes}]

(***************************************************************************)
(* State                                                                   *)
(***************************************************************************)
VARIABLES
  entry,                   \* the exported function the caller invoked
  pc,                      \* the step of placeOrder about to run, or "done"
  order,                   \* the UnvalidatedOrder given to placeOrder
  deps,                    \* what each dependency answered, once asked
  bound,                   \* the names bound so far by validateOrder's TE.Do
  validatedOrder,
  pricedOrder,
  withShipping,            \* addShippingInfoToOrder's result, freeVipShipping's input
  pricedOrderWithShipping,
  acknowledgementOption,
  result,                  \* the settled TaskEither, or the exception that left it
  failedStep,              \* the bind whose Left or exception ended the run
  calls,                   \* the dependencies invoked, in order
  response                 \* the HttpResponse made of the settled result

vars == <<entry, pc, order, deps, bound, validatedOrder, pricedOrder, withShipping,
          pricedOrderWithShipping, acknowledgementOption, result, failedStep, calls,
          response>>

NoDeps ==
  [shippingCheck |-> None, billingCheck |-> None, existing |-> None,
   tables |-> None, sendResult |-> None]
NoBound ==
  [orderId |-> None, customerInfo |-> None, checkedShippingAddress |-> None,
   shippingAddress |-> None, checkedBillingAddress |-> None,
   billingAddress |-> None, lines |-> None, pricingMethod |-> None]

\* placeOrder(...)(unvalidatedOrder) is called
InitPlaceOrder ==
  /\ entry = "placeOrder"
  /\ pc = "orderId"
  /\ order \in {Some(o) : o \in UnvalidatedOrders}
  /\ validatedOrder = None
  /\ pricedOrder = None
  /\ withShipping = None

\* priceOrder(getPricingFunction)(validatedOrder) is called on a well-typed order
InitPriceOrder ==
  /\ entry = "priceOrder"
  /\ pc = "pricedOrder"
  /\ order = None
  /\ validatedOrder \in {Some(o) : o \in TypedValidatedOrders}
  /\ pricedOrder = None
  /\ withShipping = None

\* the steps after the shipping cost, called on a well-typed order with shipping
InitFreeVipShipping ==
  /\ entry = "freeVipShipping"
  /\ pc = "freeVipShipping"
  /\ order = None
  /\ validatedOrder = None
  /\ withShipping \in {Some(o) : o \in TypedPricedOrdersWithShipping}
  /\ pricedOrder = Some(withShipping.value.pricedOrder)

\* one constructor of the simple types is called on its own
InitSimpleType ==
  /\ entry \in DOMAIN SimpleTypeInputs
  /\ pc = "call"
  /\ order \in {Some(x) : x \in SimpleTypeInputs[entry]}
  /\ validatedOrder = None
  /\ pricedOrder = None
  /\ withShipping = None

Init ==
  /\ InitPlaceOrder \/ InitPriceOrder \/ InitFreeVipShipping \/ InitSimpleType
  /\ deps = NoDeps
  /\ bound = NoBound
  /\ pricedOrderWithShipping = None
  /\ acknowledgementOption = None
  /\ result = None
  /\ failedStep = ""
  /\ calls = <<>>
  /\ response = None

(***************************************************************************)
(* placeOrder, one action per bind                                         *)
(***************************************************************************)
\* a bind gave Left: the TaskEither settles with that error
Fail(step, e) ==
  /\ result' = Left(e)
  /\ failedStep' = step
  /\ pc' = "done"

\* a step threw: the promise rejects
Raise(step, t) ==
  /\ result' = t
  /\ failedStep' = step
  /\ pc' = "done"

BindOrderId ==
  /\ pc = "orderId"
  /\ LET r == toOrderId(order.value.orderId)
     IN  IF isLeft(r)
         THEN Fail("orderId", r.left) /\ UNCHANGED bound
         ELSE /\ bound' = [bound EXCEPT !.orderId = Some(r.right)]
              /\ pc' = "customerInfo"
              /\ UNCHANGED <<result, failedStep>>
  /\ UNCHANGED <<response, entry, order, deps, validatedOrder, pricedOrder, withShipping,
                 pricedOrderWithShipping, acknowledgementOption, calls>>

BindCustomerInfo ==
  /\ pc = "customerInfo"
  /\ LET r == toCustomerInfo(order.value.customerInfo)
     IN  IF isLeft(r)
         THEN Fail("customerInfo", r.left) /\ UNCHANGED bound
         ELSE /\ bound' = [bound EXCEPT !.customerInfo = Some(r.right)]
              /\ pc' = "checkedShippingAddress"
              /\ UNCHANGED <<result, failedStep>>
  /\ UNCHANGED <<response, entry, order, deps, validatedOrder, pricedOrder, withShipping,
                 pricedOrderWithShipping, acknowledgementOption, calls>>

\* a failed check asked a second time
BindCheckedShippingAddressRetry ==
  /\ pc = "checkedShippingAddress"
  /\ \E outcome \in AddressCheckOutcomes :
       LET r == toCheckedAddress(checkAddressExists(outcome, order.value.shippingAddress))
       IN  /\ deps' = [deps EXCEPT !.shippingCheck = Some(outcome)]
           /\ IF isLeft(r)
              THEN /\ Fail("checkedShippingAddress", r.left)
                   /\ UNCHANGED bound
                   /\ calls' = calls \o <<"checkAddressExists(shippingAddress)",
                                           "checkAddressExists(shippingAddress)">>
              ELSE /\ bound' = [bound EXCEPT !.checkedShippingAddress = Some(r.right)]
                   /\ pc' = "shippingAddress"
                   /\ calls' = Append(calls, "checkAddressExists(shippingAddress)")
                   /\ UNCHANGED <<result, failedStep>>
  /\ UNCHANGED <<response, entry, order, validatedOrder, pricedOrder, withShipping,
                 pricedOrderWithShipping, acknowledgementOption>>

BindCheckedShippingAddress ==
  /\ pc = "checkedShippingAddress"
  /\ \E outcome \in AddressCheckOutcomes :
       LET r == toCheckedAddress(checkAddressExists(outcome, order.value.shippingAddress))
       IN  /\ deps' = [deps EXCEPT !.shippingCheck = Some(outcome)]
           /\ IF isLeft(r)
              THEN Fail("checkedShippingAddress", r.left) /\ UNCHANGED bound
              ELSE /\ bound' = [bound EXCEPT !.checkedShippingAddress = Some(r.right)]
                   /\ pc' = "shippingAddress"
                   /\ UNCHANGED <<result, failedStep>>
  /\ calls' = Append(calls, "checkAddressExists(shippingAddress)")
  /\ UNCHANGED <<response, entry, order, validatedOrder, pricedOrder, withShipping,
                 pricedOrderWithShipping, acknowledgementOption>>

BindShippingAddress ==
  /\ pc = "shippingAddress"
  /\ LET r == toAddress(bound.checkedShippingAddress.value)
     IN  IF isLeft(r)
         THEN Fail("shippingAddress", r.left) /\ UNCHANGED bound
         ELSE /\ bound' = [bound EXCEPT !.shippingAddress = Some(r.right)]
              /\ pc' = "checkedBillingAddress"
              /\ UNCHANGED <<result, failedStep>>
  /\ UNCHANGED <<response, entry, order, deps, validatedOrder, pricedOrder, withShipping,
                 pricedOrderWithShipping, acknowledgementOption, calls>>

BindCheckedBillingAddress ==
  /\ pc = "checkedBillingAddress"
  /\ \E outcome \in AddressCheckOutcomes :
       LET r == toCheckedAddress(checkAddressExists(outcome, order.value.billingAddress))
       IN  /\ deps' = [deps EXCEPT !.billingCheck = Some(outcome)]
           /\ IF isLeft(r)
              THEN Fail("checkedBillingAddress", r.left) /\ UNCHANGED bound
              ELSE /\ bound' = [bound EXCEPT !.checkedBillingAddress = Some(r.right)]
                   /\ pc' = "billingAddress"
                   /\ UNCHANGED <<result, failedStep>>
  /\ calls' = Append(calls, "checkAddressExists(billingAddress)")
  /\ UNCHANGED <<response, entry, order, validatedOrder, pricedOrder, withShipping,
                 pricedOrderWithShipping, acknowledgementOption>>

BindBillingAddress ==
  /\ pc = "billingAddress"
  /\ LET r == toAddress(bound.checkedBillingAddress.value)
     IN  IF isLeft(r)
         THEN Fail("billingAddress", r.left) /\ UNCHANGED bound
         ELSE /\ bound' = [bound EXCEPT !.billingAddress = Some(r.right)]
              /\ pc' = "lines"
              /\ UNCHANGED <<result, failedStep>>
  /\ UNCHANGED <<response, entry, order, deps, validatedOrder, pricedOrder, withShipping,
                 pricedOrderWithShipping, acknowledgementOption, calls>>

\* checkProductCodeExists is asked for every line whose product code is well
\* formed, before the lines' results are put in sequence
RECURSIVE productChecks(_)
productChecks(lines) ==
  IF lines = <<>> THEN <<>>
  ELSE (IF /\ isRight(toOrderLineId(Head(lines).orderLineId))
           /\ isRight(ProductCodeCreate("ProductCode", Head(lines).productCode))
        THEN <<"checkProductCodeExists">>
        ELSE <<>>) \o productChecks(Tail(lines))

BindLines ==
  /\ pc = "lines"
  /\ \E existing \in ExistingProducts :
       LET r == toValidatedOrderLines(existing, order.value.lines)
       IN  /\ deps' = [deps EXCEPT !.existing = Some(existing)]
           /\ IF isLeft(r)
              THEN Fail("lines", r.left) /\ UNCHANGED bound
              ELSE /\ bound' = [bound EXCEPT !.lines = Some(r.right)]
                   /\ pc' = "pricingMethod"
                   /\ UNCHANGED <<result, failedStep>>
  /\ calls' = calls \o productChecks(order.value.lines)
  /\ UNCHANGED <<response, entry, order, validatedOrder, pricedOrder, withShipping,
                 pricedOrderWithShipping, acknowledgementOption>>

\* the last bind of validateOrder and its TE.map: the ValidatedOrder
BindPricingMethod ==
  /\ pc = "pricingMethod"
  /\ LET pricingMethod == createPricingMethod(order.value.promotionCode)
     IN  /\ bound' = [bound EXCEPT !.pricingMethod = Some(pricingMethod)]
         /\ validatedOrder' =
              Some([orderId |-> bound.orderId.value,
                    customerInfo |-> bound.customerInfo.value,
                    shippingAddress |-> bound.shippingAddress.value,
                    billingAddress |-> bound.billingAddress.value,
                    lines |-> bound.lines.value,
                    pricingMethod |-> pricingMethod])
  /\ pc' = "pricedOrder"
  /\ UNCHANGED <<response, entry, order, deps, pricedOrder, withShipping,
                 pricedOrderWithShipping, acknowledgementOption, result,
                 failedStep, calls>>

BindPricedOrder ==
  /\ pc = "pricedOrder"
  /\ \E tables \in PriceTables :
       LET r == priceOrder(tables, validatedOrder.value)
       IN  /\ deps' = [deps EXCEPT !.tables = Some(tables)]
           /\ IF isThrow(r)
              THEN Raise("pricedOrder", r) /\ UNCHANGED pricedOrder
              ELSE IF isLeft(r)
              THEN Fail("pricedOrder", r.left) /\ UNCHANGED pricedOrder
              ELSE /\ pricedOrder' = Some(r.right)
                   /\ pc' = IF entry = "priceOrder" THEN "done"
                                                    ELSE "addShippingInfoToOrder"
                   /\ UNCHANGED <<result, failedStep>>
  /\ calls' = Append(calls, "getPricingFunction")
  /\ UNCHANGED <<response, entry, order, bound, validatedOrder, withShipping,
                 pricedOrderWithShipping, acknowledgementOption>>

\* first half of the "pricedOrderWithShipping" bind
AddShippingInfoToOrder ==
  /\ pc = "addShippingInfoToOrder"
  /\ LET r == addShippingInfoToOrder(pricedOrder.value)
     IN  IF isThrow(r)
         THEN Raise("pricedOrderWithShipping", r) /\ UNCHANGED withShipping
         ELSE /\ withShipping' = Some(r)
              /\ pc' = "freeVipShipping"
              /\ UNCHANGED <<result, failedStep>>
  /\ UNCHANGED <<response, entry, order, deps, bound, validatedOrder, pricedOrder,
                 pricedOrderWithShipping, acknowledgementOption, calls>>

\* second half of the "pricedOrderWithShipping" bind
FreeVipShipping ==
  /\ pc = "freeVipShipping"
  /\ LET r == freeVipShipping(withShipping.value)
     IN  IF isThrow(r)
         THEN Raise("pricedOrderWithShipping", r) /\ UNCHANGED pricedOrderWithShipping
         ELSE /\ pricedOrderWithShipping' = Some(r)
              /\ pc' = "acknowledgementOption"
              /\ UNCHANGED <<result, failedStep>>
  /\ UNCHANGED <<response, entry, order, deps, bound, validatedOrder, pricedOrder,
                 withShipping, acknowledgementOption, calls>>

\* the letter made a second time before the send
BindAcknowledgementOptionLetterTwice ==
  /\ pc = "acknowledgementOption"
  /\ \E sendResult \in SendResults :
       /\ deps' = [deps EXCEPT !.sendResult = Some(sendResult)]
       /\ acknowledgementOption' =
            Some(acknowledgeOrder(sendResult, pricedOrderWithShipping.value))
  /\ calls' = calls \o <<"createOrderAcknowledgmentLetter",
                          "createOrderAcknowledgmentLetter", "sendOrderAcknowledgment">>
  /\ pc' = "events"
  /\ UNCHANGED <<response, entry, order, bound, validatedOrder, pricedOrder,
                 withShipping, pricedOrderWithShipping, result, failedStep>>

BindAcknowledgementOption ==
  /\ pc = "acknowledgementOption"
  /\ \E sendResult \in SendResults :
       /\ deps' = [deps EXCEPT !.sendResult = Some(sendResult)]
       /\ acknowledgementOption' =
            Some(acknowledgeOrder(sendResult, pricedOrderWithShipping.value))
  /\ calls' = calls \o <<"createOrderAcknowledgmentLetter", "sendOrderAcknowledgment">>
  /\ pc' = "events"
  /\ UNCHANGED <<response, entry, order, bound, validatedOrder, pricedOrder, withShipping,
                 pricedOrderWithShipping, result, failedStep>>

\* the closing TE.map
CreateEvents ==
  /\ pc = "events"
  /\ result' = Right(createEvents(pricedOrder.value, acknowledgementOption.value))
  /\ pc' = "done"
  /\ UNCHANGED <<response, entry, order, deps, bound, validatedOrder, pricedOrder,
                 withShipping, pricedOrderWithShipping, acknowledgementOption,
                 failedStep, calls>>

\* T.map(workflowResultToHttpReponse) on the settled result; a rejected
\* promise never reaches it
WorkflowResultToHttpReponse ==
  /\ pc = "done"
  /\ response = None
  /\ isLeft(result) \/ isRight(result)
  /\ response' = Some(workflowResultToHttpReponse(result))
  /\ UNCHANGED <<entry, pc, order, deps, bound, validatedOrder, pricedOrder,
                 withShipping, pricedOrderWithShipping, acknowledgementOption,
                 result, failedStep, calls>>

(***************************************************************************)
(* The simple types, one action per constructor called on its own          *)
(***************************************************************************)
\* the call returns r to its caller
Return(r) ==
  /\ result' = r
  /\ pc' = "returned"
  /\ UNCHANGED <<response, entry, order, deps, bound, validatedOrder, pricedOrder,
                 withShipping, pricedOrderWithShipping, acknowledgementOption,
                 failedStep, calls>>

CallString50Create ==
  /\ entry = "String50Create" /\ pc = "call"
  /\ Return(String50Create("field", order.value.str))

CallString50CreateOption ==
  /\ entry = "String50CreateOption" /\ pc = "call"
  /\ Return(String50CreateOption("field", order.value.str))

CallProductCodeCreate ==
  /\ entry = "ProductCodeCreate" /\ pc = "call"
  /\ Return(ProductCodeCreate("field", order.value.code))

CallOrderQuantityCreate ==
  /\ entry = "OrderQuantityCreate" /\ pc = "call"
  /\ Return(OrderQuantityCreate("field", order.value.productCode, order.value.quantity))

CallPriceCreate ==
  /\ entry = "PriceCreate" /\ pc = "call"
  /\ Return(PriceCreate(order.value.v))

CallBillingAmountCreate ==
  /\ entry = "BillingAmountCreate" /\ pc = "call"
  /\ Return(BillingAmountCreate(order.value.v))

CallPriceMultiply ==
  /\ entry = "PriceMultiply" /\ pc = "call"
  /\ Return(PriceMultiply(order.value.qty, order.value.p))

CallSumPrices ==
  /\ entry = "sumPrices" /\ pc = "call"
  /\ Return(sumPrices(order.value.prices))

\* toAddress(dto): a ValidationError is returned to the caller, an Address
\* is kept for fromAddress
CallAddressDtoToAddress ==
  /\ entry = "fromAddress" /\ pc = "call"
  /\ LET r == AddressDto_toAddress(order.value.dto)
     IN  /\ result' = r
         /\ pc' = IF isLeft(r) THEN "returned" ELSE "toAddress"
  /\ UNCHANGED <<response, entry, order, deps, bound, validatedOrder, pricedOrder,
                 withShipping, pricedOrderWithShipping, acknowledgementOption,
                 failedStep, calls>>

\* fromAddress on the Address toAddress gave
CallFromAddress ==
  /\ entry = "fromAddress" /\ pc = "toAddress"
  /\ Return(Right(fromAddress(result.right)))

\* getPricingFunction(standardPrices)(promoPrices)(pricingMethod)(productCode)
CallGetPricingFunction ==
  /\ entry = "getPricingFunction" /\ pc = "call"
  /\ Return(getPricingFunction(order.value.tables, order.value.pricingMethod,
                               order.value.productCode))

Next ==
  \/ BindOrderId
  \/ BindCustomerInfo
  \/ BindCheckedShippingAddress
  \/ BindShippingAddress
  \/ BindCheckedBillingAddress
  \/ BindBillingAddress
  \/ BindLines
  \/ BindPricingMethod
  \/ BindPricedOrder
  \/ AddShippingInfoToOrder
  \/ FreeVipShipping
  \/ BindAcknowledgementOption
  \/ CreateEvents
  \/ WorkflowResultToHttpReponse
  \/ CallString50Create
  \/ CallString50CreateOption
  \/ CallProductCodeCreate
  \/ CallOrderQuantityCreate
  \/ CallPriceCreate
  \/ CallBillingAmountCreate
  \/ CallPriceMultiply
  \/ CallSumPrices
  \/ CallGetPricingFunction
  \/ CallAddressDtoToAddress
  \/ CallFromAddress

Spec == Init /\ [][Next]_vars

(***************************************************************************)
(* Helpers of the properties                                               *)
(***************************************************************************)
PlaceOrderErrorTags == {"ValidationError", "PricingError", "RemoteServiceError"}
done == pc = "done"
succeeded == done /\ isRight(result)
eventTags(events) == [i \in 1..Len(events) |-> events[i]._tag]
countTag(events, tag) == Cardinality({i \in 1..Len(events) : events[i]._tag = tag})

(***************************************************************************)
(* C1: every run of placeOrder ends with an explicit outcome value, a list *)
(* of events or one PlaceOrderError; no step raises an exception.          *)
(***************************************************************************)
C1_ExplicitOutcome ==
  (entry = "placeOrder" /\ done) =>
    /\ ~isThrow(result)
    /\ isLeft(result) \/ isRight(result)
    /\ isLeft(result) => result.left._tag \in PlaceOrderErrorTags

(***************************************************************************)
(* C2: no partial success: a finished run of placeOrder holds either the   *)
(* full event list (the mandatory shipment event among them) and no error, *)
(* or exactly one error, that of the one step that failed, and no events.  *)
(***************************************************************************)
C2_EventsOrOneError ==
  (entry = "placeOrder" /\ done) =>
    \/ /\ isRight(result)
       /\ failedStep = ""
       /\ countTag(result.right, "ShippableOrderPlaced") = 1
    \/ /\ isLeft(result)
       /\ failedStep # ""
       /\ result.left._tag \in PlaceOrderErrorTags

(***************************************************************************)
(* C3: in the event list of a successful run an OrderAcknowledgementSent   *)
(* event comes before the ShippableOrderPlaced event, which comes before   *)
(* any BillableOrderPlaced event.                                          *)
(***************************************************************************)
C3_EventOrder ==
  succeeded =>
    LET tags == eventTags(result.right)
    IN  \A i, j \in 1..Len(tags) :
          /\ (tags[i] = "OrderAcknowledgementSent" /\ tags[j] = "ShippableOrderPlaced")
               => i < j
          /\ (tags[i] = "ShippableOrderPlaced" /\ tags[j] = "BillableOrderPlaced")
               => i < j
          /\ (tags[i] = "OrderAcknowledgementSent" /\ tags[j] = "BillableOrderPlaced")
               => i < j

\* a run that produced all three events
C3_Witness ==
  /\ succeeded
  /\ eventTags(result.right) =
       <<"OrderAcknowledgementSent", "ShippableOrderPlaced", "BillableOrderPlaced">>

(***************************************************************************)
(* C4: the event list holds no BillableOrderPlaced event when amountToBill *)
(* is 0, and exactly one, carrying that amount, the order id and the       *)
(* billing address, when amountToBill is above 0.                          *)
(***************************************************************************)
C4_BillingEvent ==
  succeeded =>
    LET po == pricedOrder.value
        events == result.right
        billing == {i \in 1..Len(events) : events[i]._tag = "BillableOrderPlaced"}
    IN  /\ po.amountToBill.value = 0 => billing = {}
        /\ po.amountToBill.value > 0 =>
             /\ Cardinality(billing) = 1
             /\ \A i \in billing :
                  /\ events[i].amountToBill = po.amountToBill
                  /\ events[i].orderId = po.orderId
                  /\ events[i].billingAddress = po.billingAddress

\* a run whose order had something to bill
C4_Witness ==
  /\ succeeded
  /\ pricedOrder.value.amountToBill.value > 0
  /\ countTag(result.right, "BillableOrderPlaced") = 1

(***************************************************************************)
(* C5: of two runs of placeOrder that differ only in what                  *)
(* sendOrderAcknowledgment answers, the NotSent run has no                 *)
(* OrderAcknowledgementSent event and exactly one event fewer than the     *)
(* Sent run; the other events are the same and the run still succeeds.     *)
(***************************************************************************)
\* the events of the run that is this one but for the answer of the send
eventsHad(sendResult) ==
  createEvents(pricedOrder.value,
               acknowledgeOrder(sendResult, pricedOrderWithShipping.value))

\* what the acknowledgement and event steps do with the two answers
NotSentOneEventFewer ==
  (pc \in {"events", "done"} /\ isSome(acknowledgementOption)) =>
    /\ done => isRight(result) /\ result.right = eventsHad(deps.sendResult.value)
    /\ acknowledgementOption.value =
         acknowledgeOrder(deps.sendResult.value, pricedOrderWithShipping.value)
    /\ countTag(eventsHad("NotSent"), "OrderAcknowledgementSent") = 0
    /\ Len(eventsHad("NotSent")) + 1 = Len(eventsHad("Sent"))
    /\ eventsHad("NotSent") = Tail(eventsHad("Sent"))
    /\ Head(eventsHad("Sent"))._tag = "OrderAcknowledgementSent"

C5_NotSentRunSucceeds ==
  /\ NotSentOneEventFewer
  /\ (entry = "placeOrder" /\ done /\ isSome(pricedOrder)) =>
       /\ succeeded
       /\ result.right = eventsHad(deps.sendResult.value)

(***************************************************************************)
(* C6: calculateShippingCost never fails and gives 5 for a US address in   *)
(* CA, OR, AZ or NV, 10 for any other US address and 20 for an address     *)
(* outside the US.                                                         *)
(***************************************************************************)
C6_ShippingCost ==
  (entry = "placeOrder" /\ isSome(pricedOrder) /\ pc # "addShippingInfoToOrder") =>
    LET a == pricedOrder.value.shippingAddress
        cost == IF a.country.value = s_US
                THEN IF a.state.value \in {s_CA, s_OR, s_AZ, s_NV} THEN 5 ELSE 10
                ELSE 20
    IN  /\ isSome(withShipping)
        /\ withShipping.value.shippingInfo.shippingCost = Price(Num(cost))

(***************************************************************************)
(* C7: freeVipShipping leaves a "Normal" customer's order with shipping    *)
(* unchanged and, for a "Vip" customer, sets the shipping cost to 0 and    *)
(* leaves the shipping method and the priced order unchanged; in           *)
(* placeOrder a VIP customer whose order was priced ends with shipping     *)
(* cost 0, whatever the country and state.                                 *)
(***************************************************************************)
C7_FreeVipShipping ==
  /\ isSome(pricedOrderWithShipping) =>
       LET before == withShipping.value
           after == pricedOrderWithShipping.value
       IN  /\ before.pricedOrder.customerInfo.vipStatus = "Vip" =>
                /\ after.shippingInfo.shippingCost = Price(0)
                /\ after.shippingInfo.shippingMethod = before.shippingInfo.shippingMethod
                /\ after.pricedOrder = before.pricedOrder
           /\ before.pricedOrder.customerInfo.vipStatus = "Normal" => after = before
  /\ ( /\ entry = "placeOrder"
       /\ done
       /\ isSome(pricedOrder)
       /\ pricedOrder.value.customerInfo.vipStatus = "Vip" ) =>
       /\ isSome(pricedOrderWithShipping)
       /\ pricedOrderWithShipping.value.shippingInfo.shippingCost = Price(0)

(***************************************************************************)
(* C8: when the sum of the priced lines passes the BillingAmount bound,    *)
(* pricing fails with a PricingError; a failure of the pricing step is a   *)
(* PricingError and a failure of a validation step is a ValidationError.   *)
(***************************************************************************)
\* quantity times looked-up unit price, summed over the validated lines
RECURSIVE lineTotals(_, _, _)
lineTotals(tables, pricingMethod, lines) ==
  IF lines = <<>> THEN 0
  ELSE Times(Head(lines).quantity.value,
             getPricingFunction(tables, pricingMethod, Head(lines).productCode).value)
       + lineTotals(tables, pricingMethod, Tail(lines))

C8_PricingErrorMember ==
  /\ (done /\ failedStep = "pricedOrder") =>
       isLeft(result) /\ result.left._tag = "PricingError"
  /\ (done /\ isLeft(result) /\ failedStep # "pricedOrder") =>
       result.left._tag = "ValidationError"
  /\ ( /\ done
       /\ isSome(validatedOrder)
       /\ isSome(deps.tables)
       /\ lineTotals(deps.tables.value, validatedOrder.value.pricingMethod,
                     validatedOrder.value.lines) > Num(BillingAmountMax) ) =>
       isLeft(result) /\ result.left._tag = "PricingError"

(***************************************************************************)
(* C9: the validated order's pricing method is "Standard" when the raw     *)
(* promotionCode is empty and a PromotionCode wrapping the string when it  *)
(* is not blank.                                                           *)
(***************************************************************************)
C9_PricingMethod ==
  (entry = "placeOrder" /\ isSome(validatedOrder)) =>
    LET promotionCode == order.value.promotionCode
        pricingMethod == validatedOrder.value.pricingMethod
    IN  /\ promotionCode = <<>> => pricingMethod = Standard
        /\ trim(promotionCode) # <<>> => pricingMethod = PromotionCode(promotionCode)

(***************************************************************************)
(* C10: when priceOrder succeeds, the priced lines are one                 *)
(* PricedOrderProductLine per validated line, in the same order, followed, *)
(* when the pricing method is a promotion code, by exactly one CommentLine *)
(* naming that code; with "Standard" there is no CommentLine.              *)
(***************************************************************************)
C10_CommentLine ==
  (isSome(validatedOrder) /\ isSome(pricedOrder)) =>
    LET vo == validatedOrder.value
        po == pricedOrder.value
        n == Len(vo.lines)
    IN  /\ Len(po.lines) >= n
        /\ \A i \in 1..n :
             /\ po.lines[i]._tag = "PricedOrderProductLine"
             /\ po.lines[i].orderLineId = vo.lines[i].orderLineId
             /\ po.lines[i].productCode = vo.lines[i].productCode
             /\ po.lines[i].quantity = vo.lines[i].quantity
        /\ IF vo.pricingMethod._tag = "PromotionCode"
           THEN /\ Len(po.lines) = n + 1
                /\ po.lines[n + 1]._tag = "CommentLine"
                /\ po.lines[n + 1].value =
                     Msg("Applied promotion ${pricingMethod.value}", "",
                         vo.pricingMethod.value)
           ELSE Len(po.lines) = n

\* an order of two lines priced under the promotion HALF
C10_Witness ==
  /\ isSome(validatedOrder)
  /\ isSome(pricedOrder)
  /\ validatedOrder.value.pricingMethod = PromotionCode(s_HALF)
  /\ Len(validatedOrder.value.lines) = 2
  /\ Len(pricedOrder.value.lines) = 3

(***************************************************************************)
(* C11: for a validated order with Standard pricing whose line totals      *)
(* (quantity times unit price) are within the Price range and whose sum is *)
(* within the BillingAmount range, priceOrder succeeds, every linePrice is *)
(* the quantity times the looked-up unit price and amountToBill is the sum *)
(* of the line prices.                                                     *)
(***************************************************************************)
\* quantity times looked-up unit price of one validated line
lineTotal(tables, pricingMethod, line) ==
  Times(line.quantity.value,
        getPricingFunction(tables, pricingMethod, line.productCode).value)

C11_StandardPricing ==
  ( /\ entry \in {"placeOrder", "priceOrder"}
    /\ isSome(validatedOrder)
    /\ isSome(deps.tables)
    /\ validatedOrder.value.pricingMethod = Standard
    /\ \A i \in 1..Len(validatedOrder.value.lines) :
         lineTotal(deps.tables.value, Standard, validatedOrder.value.lines[i])
           \in Num(PriceMin)..Num(PriceMax)
    /\ lineTotals(deps.tables.value, Standard, validatedOrder.value.lines)
         \in Num(BillingAmountMin)..Num(BillingAmountMax) ) =>
    /\ isSome(pricedOrder)
    /\ LET vo == validatedOrder.value
           po == pricedOrder.value
       IN  /\ Len(po.lines) = Len(vo.lines)
           /\ \A i \in 1..Len(vo.lines) :
                /\ po.lines[i]._tag = "PricedOrderProductLine"
                /\ po.lines[i].linePrice =
                     Price(lineTotal(deps.tables.value, Standard, vo.lines[i]))
           /\ po.amountToBill.value =
                lineTotals(deps.tables.value, Standard, vo.lines)

(***************************************************************************)
(* C12: OrderQuantity.create with a WidgetCode succeeds, as UnitQuantity,  *)
(* exactly when the quantity is an integer in [1,1000]; with a GizmoCode   *)
(* it succeeds, as KilogramQuantity, exactly when the quantity is in       *)
(* [0.05,100]; every other quantity fails with an error.                   *)
(***************************************************************************)
C12_OrderQuantityRanges ==
  (entry = "OrderQuantityCreate" /\ pc = "returned") =>
    LET productCode == order.value.productCode
        quantity == order.value.quantity
    IN  /\ isRight(result) \/ isLeft(result)
        /\ productCode._tag = "WidgetCode" =>
             /\ isRight(result) <=>
                  /\ isInteger(quantity)
                  /\ quantity \in Num(UnitQuantityMin)..Num(UnitQuantityMax)
             /\ isRight(result) =>
                  result.right = [_tag |-> "UnitQuantity", value |-> quantity]
        /\ productCode._tag = "GizmoCode" =>
             /\ isRight(result) <=>
                  quantity \in KilogramQuantityMin..Num(KilogramQuantityMax)
             /\ isRight(result) =>
                  result.right = [_tag |-> "KilogramQuantity", value |-> quantity]

(***************************************************************************)
(* C13: Price.create(v) succeeds exactly when 0 <= v <= 1000 and           *)
(* BillingAmount.create(v) exactly when 0 <= v <= 10000; Price.multiply    *)
(* succeeds exactly when qty * p.value is a Price and                      *)
(* BillingAmount.sumPrices exactly when the sum is a BillingAmount.        *)
(***************************************************************************)
C13_PriceAndBillingRanges ==
  pc = "returned" =>
    /\ entry = "PriceCreate" =>
         (isRight(result) <=> order.value.v \in Num(PriceMin)..Num(PriceMax))
    /\ entry = "BillingAmountCreate" =>
         (isRight(result) <=>
            order.value.v \in Num(BillingAmountMin)..Num(BillingAmountMax))
    /\ entry = "PriceMultiply" =>
         (isRight(result) <=>
            Times(order.value.qty, order.value.p.value) \in Num(PriceMin)..Num(PriceMax))
    /\ entry = "sumPrices" =>
         (isRight(result) <=>
            reduceSum(order.value.prices, 0)
              \in Num(BillingAmountMin)..Num(BillingAmountMax))

(***************************************************************************)
(* C14: String50.create succeeds with the string unchanged when its length *)
(* is between 1 and 50, and fails when it is empty or longer than 50.      *)
(***************************************************************************)
C14_String50Create ==
  (entry = "String50Create" /\ pc = "returned") =>
    LET str == order.value.str
    IN  /\ Len(str) \in 1..String50MaxLen =>
             /\ isRight(result)
             /\ result.right.value = str
        /\ (str = <<>> \/ Len(str) > String50MaxLen) => isLeft(result)

\* a string of exactly fifty characters was accepted
C14_Witness ==
  /\ entry = "String50Create"
  /\ pc = "returned"
  /\ Len(order.value.str) = String50MaxLen
  /\ isRight(result)
  /\ result.right.value = order.value.str

(***************************************************************************)
(* C15: ProductCode.create fails on the empty code with "<field> must not  *)
(* be null or empty"; a code starting with W succeeds, as WidgetCode,      *)
(* exactly when it is W and four digits; a code starting with G succeeds,  *)
(* as GizmoCode, exactly when it is G and three digits; any other first    *)
(* character fails with a format error.                                    *)
(***************************************************************************)
C15_ProductCodeCreate ==
  (entry = "ProductCodeCreate" /\ pc = "returned") =>
    LET code == order.value.code
        digitsAfter(n) == Len(code) = n + 1 /\ \A i \in 2..(n + 1) : code[i] \in Digits
    IN  /\ isRight(result) \/ isLeft(result)
        /\ code = <<>> =>
             /\ isLeft(result)
             /\ result.left.message =
                  Msg("${fieldName} must not be null or empty", "field", <<>>)
        /\ (code # <<>> /\ code[1] = "W") =>
             /\ isRight(result) <=> digitsAfter(4)
             /\ isRight(result) => result.right = [_tag |-> "WidgetCode", value |-> code]
        /\ (code # <<>> /\ code[1] = "G") =>
             /\ isRight(result) <=> digitsAfter(3)
             /\ isRight(result) => result.right = [_tag |-> "GizmoCode", value |-> code]
        /\ (code # <<>> /\ code[1] \notin {"W", "G"}) =>
             /\ isLeft(result)
             /\ result.left.message =
                  Msg("${fieldName}: format not regonised '${code}'", "field", code)

\* the code G123 was accepted as a GizmoCode
C15_Witness ==
  /\ entry = "ProductCodeCreate"
  /\ pc = "returned"
  /\ order.value.code = s_G123
  /\ result = Right([_tag |-> "GizmoCode", value |-> s_G123])

(***************************************************************************)
(* C16: an order whose other fields are valid and whose address check      *)
(* succeeds, but whose shipping or billing zip code is not a string of     *)
(* five digits, makes placeOrder return a ValidationError on the zip code  *)
(* field, with no events and without the pricing and acknowledgement       *)
(* dependencies being invoked.                                             *)
(***************************************************************************)
isFiveDigits(zipCode) ==
  Len(zipCode) = 5 /\ \A i \in 1..5 : zipCode[i] \in Digits

\* the order's fields other than the addresses are valid
otherFieldsValid ==
  /\ isRight(toOrderId(order.value.orderId))
  /\ isRight(toCustomerInfo(order.value.customerInfo))
  /\ isRight(toValidatedOrderLines({s_W1234, s_G123}, order.value.lines))
  /\ deps.existing \in {None, Some({s_W1234, s_G123})}

\* every address check made succeeded, one of them for an address whose zip
\* code is not five digits
badZipChecked ==
  /\ deps.shippingCheck = Some("Ok")
  /\ deps.billingCheck \in {None, Some("Ok")}
  /\ \/ ~isFiveDigits(order.value.shippingAddress.zipCode)
     \/ /\ deps.billingCheck = Some("Ok")
        /\ ~isFiveDigits(order.value.billingAddress.zipCode)

zipCodeRefused ==
  /\ isLeft(result)
  /\ result.left._tag = "ValidationError"
  /\ result.left.fieldName = "ZipCode"
  /\ \A i \in 1..Len(calls) :
       calls[i] \notin {"getPricingFunction", "createOrderAcknowledgmentLetter",
                        "sendOrderAcknowledgment"}

C16_InvalidZipCode ==
  (entry = "placeOrder" /\ done /\ otherFieldsValid /\ badZipChecked) => zipCodeRefused

\* the same for the zip codes that hold no run of five digits
ShortZipCodeRefused ==
  ( /\ entry = "placeOrder"
    /\ done
    /\ otherFieldsValid
    /\ badZipChecked
    /\ order.value.shippingAddress.zipCode # s_123456
    /\ order.value.billingAddress.zipCode # s_123456 ) => zipCodeRefused

(***************************************************************************)
(* C17: a successful run emits exactly one ShippableOrderPlaced event, at  *)
(* most one BillableOrderPlaced event and at most one                      *)
(* OrderAcknowledgementSent event: between one and three events, no two of *)
(* the same kind.                                                          *)
(***************************************************************************)
C17_EventCounts ==
  succeeded =>
    LET events == result.right
    IN  /\ countTag(events, "ShippableOrderPlaced") = 1
        /\ countTag(events, "BillableOrderPlaced") <= 1
        /\ countTag(events, "OrderAcknowledgementSent") <= 1
        /\ Len(events) \in 1..3
        /\ \A i, j \in 1..Len(events) : events[i]._tag = events[j]._tag => i = j

\* a run whose only event is the shipment event
C17_Witness ==
  /\ succeeded
  /\ eventTags(result.right) = <<"ShippableOrderPlaced">>

(***************************************************************************)
(* C18: workflowResultToHttpReponse maps a failed result to status 401     *)
(* with a body {code, message} whose code names the PlaceOrderError member *)
(* of the stage that failed, and a successful result to status 200 with    *)
(* the serialized list of events.                                          *)
(***************************************************************************)
\* the union member of the stage whose bind failed
stageError ==
  IF failedStep = "pricedOrder" THEN "PricingError" ELSE "ValidationError"

C18_HttpResponse ==
  isSome(response) =>
    /\ isLeft(result) =>
         /\ response.value.httpStatusCode = 401
         /\ response.value.body =
              serializeJson([code |-> stageError, message |-> result.left.message])
    /\ isRight(result) =>
         /\ response.value.httpStatusCode = 200
         /\ response.value.body =
              serializeJson([i \in 1..Len(result.right) |->
                               placeOrderEventDtoFromDomain(result.right[i])])

\* what holds of it: the two status codes, and the error body of a failure
\* of validation
HttpStatusAndValidationBody ==
  isSome(response) =>
    /\ isLeft(result) =>
         /\ response.value.httpStatusCode = 401
         /\ failedStep # "pricedOrder" =>
              response.value.body =
                serializeJson([code |-> "ValidationError",
                               message |-> result.left.message])
    /\ isRight(result) => response.value.httpStatusCode = 200

(***************************************************************************)
(* C19: the stages run in the order validate, price, add shipping info,    *)
(* VIP adjustment, acknowledge, assemble events, and the run stops at the  *)
(* first failure; getPricingFunction is invoked only after validation      *)
(* succeeded; createOrderAcknowledgmentLetter and sendOrderAcknowledgment  *)
(* are invoked, the letter first and each exactly once, only after         *)
(* validation and pricing succeeded and never in a run that ends in an     *)
(* error.                                                                  *)
(***************************************************************************)
stageOf ==
  [orderId |-> 1, customerInfo |-> 1, checkedShippingAddress |-> 1,
   shippingAddress |-> 1, checkedBillingAddress |-> 1, billingAddress |-> 1,
   lines |-> 1, pricingMethod |-> 1, pricedOrder |-> 2,
   addShippingInfoToOrder |-> 3, freeVipShipping |-> 4,
   acknowledgementOption |-> 5, events |-> 6]

callsOf(name) == {i \in 1..Len(calls) : calls[i] = name}

\* each stage's output exists only after the output of the stage before it,
\* and each dependency was invoked only after the stages before it succeeded
stagesInOrder ==
  /\ entry = "placeOrder" =>
       /\ isSome(pricedOrder) => isSome(validatedOrder)
       /\ isSome(withShipping) => isSome(pricedOrder)
       /\ callsOf("getPricingFunction") # {} => isSome(validatedOrder)
  /\ isSome(pricedOrderWithShipping) => isSome(withShipping)
  /\ isSome(acknowledgementOption) => isSome(pricedOrderWithShipping)
  /\ succeeded => isSome(acknowledgementOption)
  /\ failedStep # "" =>
       /\ pc = "done"
       /\ isLeft(result) \/ isThrow(result)
       /\ isNone(acknowledgementOption)
       /\ failedStep \in DOMAIN stageOf \ {"pricedOrder"} => isNone(pricedOrder)
  /\ (callsOf("createOrderAcknowledgmentLetter") # {}
        \/ callsOf("sendOrderAcknowledgment") # {}) =>
       /\ \E i \in 1..(Len(calls) - 1) :
            /\ callsOf("createOrderAcknowledgmentLetter") = {i}
            /\ callsOf("sendOrderAcknowledgment") = {i + 1}
       /\ isSome(pricedOrder)
       /\ isSome(pricedOrderWithShipping)
       /\ entry = "placeOrder" => isSome(validatedOrder)
       /\ ~isLeft(result) /\ ~isThrow(result)

\* a step moves to the same or the next stage, or ends the run; once the run
\* has ended nothing but the response is made
stageStep ==
  /\ (pc \in DOMAIN stageOf /\ pc' # pc) =>
       \/ pc' = "done"
       \/ /\ pc' \in DOMAIN stageOf
          /\ stageOf[pc'] \in {stageOf[pc], stageOf[pc] + 1}
  /\ pc = "done" =>
       UNCHANGED <<entry, pc, order, deps, bound, validatedOrder, pricedOrder,
                   withShipping, pricedOrderWithShipping, acknowledgementOption,
                   result, failedStep, calls>>

C19_StageOrder == []stagesInOrder /\ [][stageStep]_vars

\* both acknowledgement dependencies were invoked, and the run succeeded
C19_Witness ==
  /\ succeeded
  /\ isSome(pricedOrder)
  /\ calls = <<"createOrderAcknowledgmentLetter", "sendOrderAcknowledgment">>

(***************************************************************************)
(* C20: in one placeOrder invocation checkAddressExists is invoked at most *)
(* once for the shipping address and at most once for the billing address; *)
(* the billing check starts only after the shipping check has completed    *)
(* and the shipping Address was constructed; a failed shipping check ends  *)
(* the run at once, without the billing check, a product check, pricing or *)
(* acknowledgement being invoked.                                          *)
(***************************************************************************)
C20_AddressChecks ==
  entry = "placeOrder" =>
    LET shipping == callsOf("checkAddressExists(shippingAddress)")
        billing == callsOf("checkAddressExists(billingAddress)")
    IN  /\ Cardinality(shipping) <= 1
        /\ Cardinality(billing) <= 1
        /\ billing # {} =>
             /\ deps.shippingCheck = Some("Ok")
             /\ isSome(bound.checkedShippingAddress)
             /\ isSome(bound.shippingAddress)
             /\ \A i \in shipping, j \in billing : i < j
             /\ shipping # {}
        /\ (isSome(deps.shippingCheck) /\ deps.shippingCheck # Some("Ok")) =>
             /\ pc = "done"
             /\ isLeft(result)
             /\ result.left._tag = "ValidationError"
             /\ failedStep = "checkedShippingAddress"
             /\ calls = <<"checkAddressExists(shippingAddress)">>
             /\ isNone(deps.billingCheck)
             /\ isNone(deps.existing)
             /\ isNone(deps.tables)
             /\ isNone(deps.sendResult)

\* the shipping check answered that the address was not found
C20_Witness ==
  /\ entry = "placeOrder"
  /\ deps.shippingCheck = Some("AddressNotFound")
  /\ pc = "done"
  /\ calls = <<"checkAddressExists(shippingAddress)">>

(***************************************************************************)
(* C21: validateOrder checks its sub-steps in the order orderId,           *)
(* customerInfo (firstName, lastName, emailAddress, vipStatus), shipping   *)
(* address (existence check, then the constrained Address), billing        *)
(* address (the same), order lines; of several invalid fields the          *)
(* ValidationError returned is that of the earliest failing sub-step.      *)
(***************************************************************************)
ValidateOrderSteps ==
  {"orderId", "customerInfo", "checkedShippingAddress", "shippingAddress",
   "checkedBillingAddress", "billingAddress", "lines"}

\* a sub-step of the bind named step, and what it gives on its own
subStep(step, r) == [step |-> step, r |-> r]

\* the checks of one constrained Address, field by field
addressSubSteps(step, a) ==
  <<subStep(step, mapLeftValidation(String50Create("AddressLine1", a.addressLine1))),
    subStep(step, mapLeftValidation(String50CreateOption("AddressLine2", a.addressLine2))),
    subStep(step, mapLeftValidation(String50CreateOption("AddressLine3", a.addressLine3))),
    subStep(step, mapLeftValidation(String50CreateOption("AddressLine4", a.addressLine4))),
    subStep(step, mapLeftValidation(String50Create("City", a.city))),
    subStep(step, mapLeftValidation(ZipCodeCreate("ZipCode", a.zipCode))),
    subStep(step, mapLeftValidation(UsStateCodeCreate("State", a.state))),
    subStep(step, mapLeftValidation(String50Create("Country", a.country)))>>

\* an address check counts with the answer it gave, one never asked as passed
addressCheckSubStep(step, answer, address) ==
  subStep(step, IF isSome(answer)
                THEN toCheckedAddress(checkAddressExists(answer.value, address))
                ELSE Right(address))

\* every sub-step of validateOrder on the order of this run, in the order
\* the claim gives
validateOrderSubSteps ==
  LET o == order.value
      c == o.customerInfo
  IN  <<subStep("orderId", toOrderId(o.orderId)),
        subStep("customerInfo", mapLeftValidation(String50Create("firstName", c.firstName))),
        subStep("customerInfo", mapLeftValidation(String50Create("lastName", c.lastName))),
        subStep("customerInfo",
                mapLeftValidation(EmailAddressCreate("emailAddress", c.emailAddress))),
        subStep("customerInfo", mapLeftValidation(VipStatusCreate("vipStatus", c.vipStatus))),
        addressCheckSubStep("checkedShippingAddress", deps.shippingCheck, o.shippingAddress)>>
      \o addressSubSteps("shippingAddress", o.shippingAddress)
      \o <<addressCheckSubStep("checkedBillingAddress", deps.billingCheck, o.billingAddress)>>
      \o addressSubSteps("billingAddress", o.billingAddress)
      \o <<subStep("lines", IF isSome(deps.existing)
                            THEN toValidatedOrderLines(deps.existing.value, o.lines)
                            ELSE Right(<<>>))>>

C21_ValidationOrder ==
  (entry = "placeOrder" /\ done) =>
    LET subSteps == validateOrderSubSteps
        failing == {i \in 1..Len(subSteps) : isLeft(subSteps[i].r)}
    IN  /\ failedStep \in ValidateOrderSteps <=> failing # {}
        /\ failing # {} =>
             \E i \in failing :
               /\ \A j \in failing : i <= j
               /\ failedStep = subSteps[i].step
               /\ result = subSteps[i].r

\* an empty firstName, a vipStatus that is none of the two and a shipping
\* address with a short zip code and no state: the error is firstName's
C21_Witness ==
  /\ entry = "placeOrder"
  /\ done
  /\ order.value.customerInfo = UnvalidatedCustomerInfo(<<>>, s_Gold)
  /\ order.value.shippingAddress = UnvalidatedAddress(s_1234, s_Gold, s_US)
  /\ isLeft(result)
  /\ result.left.fieldName = "firstName"
  /\ failedStep = "customerInfo"

(***************************************************************************)
(* C22: every ValidationError returned by validateOrder carries the name   *)
(* of the offending field, a non-empty fieldName, whichever sub-step       *)
(* failed: a constrained-value check, the address-existence check or the   *)
(* product-code existence check.                                           *)
(***************************************************************************)
C22_FieldName ==
  (entry = "placeOrder" /\ done /\ failedStep \in ValidateOrderSteps) =>
    /\ isLeft(result)
    /\ result.left._tag = "ValidationError"
    /\ result.left.fieldName # ""

\* what holds of it: the errors of the constrained-value checks name their
\* field, those of the two existence checks carry the empty name
FieldNameOfConstrainedValues ==
  (entry = "placeOrder" /\ done /\ failedStep \in ValidateOrderSteps) =>
    /\ isLeft(result)
    /\ result.left._tag = "ValidationError"
    /\ result.left.fieldName = "" <=>
         \/ failedStep \in {"checkedShippingAddress", "checkedBillingAddress"}
         \/ /\ failedStep = "lines"
            /\ result.left.message.text = "Invalid: ${productCode}"

(***************************************************************************)
(* C23: the validation of the order lines has sequence semantics: the      *)
(* stage succeeds only if every line validates, the validated lines then   *)
(* being one per input line and in input order; if a line fails, the stage *)
(* fails with the error of the first failing line in list order and the    *)
(* run stops there.                                                        *)
(***************************************************************************)
\* each line of the order validated on its own
lineResults ==
  [i \in 1..Len(order.value.lines) |->
     toValidatedOrderLine(deps.existing.value, order.value.lines[i])]

failingLines == {i \in 1..Len(lineResults) : isLeft(lineResults[i])}

TwoLinesValidated ==
  /\ entry = "placeOrder"
  /\ isSome(bound.lines)
  /\ Len(bound.lines.value) = 2
  /\ bound.lines.value[1].productCode._tag = "GizmoCode"
  /\ bound.lines.value[2].productCode._tag = "WidgetCode"

(***************************************************************************)
(* C24: a failure of checkAddressExists, AddressNotFound or InvalidFormat, *)
(* is surfaced by validateOrder as a ValidationError, never as a           *)
(* RemoteServiceError and never as success, with the message "Address not  *)
(* found" for AddressNotFound and "Address has bad format" for             *)
(* InvalidFormat; a successful check passes the checked address on         *)
(* unchanged to the construction of the Address.                           *)
(***************************************************************************)
addressErrorText ==
  [AddressNotFound |-> "Address not found", InvalidFormat |-> "Address has bad format"]

\* the answer of one check, the bind it belongs to, and what came of it
addressCheckSurfaced(answer, step, address, checked, constructed) ==
  /\ (isSome(answer) /\ answer.value \in DOMAIN addressErrorText) =>
       /\ done
       /\ failedStep = step
       /\ isLeft(result)
       /\ result.left._tag = "ValidationError"
       /\ result.left.message.text = addressErrorText[answer.value]
       /\ isNone(checked)
       /\ isNone(constructed)
  /\ answer = Some("Ok") =>
       /\ failedStep # step
       /\ checked = Some([_tag |-> "CheckedAddress", value |-> address])
       /\ isSome(constructed) =>
            /\ constructed.value.addressLine1.value = address.addressLine1
            /\ constructed.value.city.value = address.city
            /\ constructed.value.zipCode.value = address.zipCode
            /\ constructed.value.state.value = address.state
            /\ constructed.value.country.value = address.country

C24_AddressErrors ==
  entry = "placeOrder" =>
    /\ addressCheckSurfaced(deps.shippingCheck, "checkedShippingAddress",
                            order.value.shippingAddress,
                            bound.checkedShippingAddress, bound.shippingAddress)
    /\ addressCheckSurfaced(deps.billingCheck, "checkedBillingAddress",
                            order.value.billingAddress,
                            bound.checkedBillingAddress, bound.billingAddress)

\* the billing address was found to have a bad format
C24_Witness ==
  /\ entry = "placeOrder"
  /\ deps.shippingCheck = Some("Ok")
  /\ deps.billingCheck = Some("InvalidFormat")
  /\ done
  /\ result.left.message.text = "Address has bad format"

(***************************************************************************)
(* C25: the shipmentLines of the ShippableOrderPlaced event are exactly    *)
(* the product lines of the priced order, in the same order and one per    *)
(* PricedOrderProductLine, each with that line's productCode and quantity; *)
(* comment lines are dropped, and a priced order without product lines     *)
(* gives an empty list of shipmentLines.                                   *)
(***************************************************************************)
productLinesOf(lines) ==
  SelectSeq(lines, LAMBDA l : l._tag = "PricedOrderProductLine")

shippingEventOf(events) ==
  events[CHOOSE i \in 1..Len(events) : events[i]._tag = "ShippableOrderPlaced"]

C25_ShipmentLines ==
  succeeded =>
    LET shipmentLines == shippingEventOf(result.right).shipmentLines
        products == productLinesOf(pricedOrder.value.lines)
    IN  /\ Len(shipmentLines) = Len(products)
        /\ \A i \in 1..Len(products) :
             /\ shipmentLines[i]._tag = "ShippableOrderLine"
             /\ shipmentLines[i].productCode = products[i].productCode
             /\ shipmentLines[i].quantity = products[i].quantity
        /\ products = <<>> => shipmentLines = <<>>

\* a Gizmo line, a Widget line and the comment line of a promotion: two
\* shipment lines in that order
C25_Witness ==
  /\ succeeded
  /\ Len(pricedOrder.value.lines) = 3
  /\ pricedOrder.value.lines[3]._tag = "CommentLine"
  /\ LET shipmentLines == shippingEventOf(result.right).shipmentLines
     IN  /\ Len(shipmentLines) = 2
         /\ shipmentLines[1].productCode._tag = "GizmoCode"
         /\ shipmentLines[2].productCode._tag = "WidgetCode"

\* nothing but the comment line: no shipment lines
OnlyCommentLineShipped ==
  /\ succeeded
  /\ Len(pricedOrder.value.lines) = 1
  /\ pricedOrder.value.lines[1]._tag = "CommentLine"
  /\ shippingEventOf(result.right).shipmentLines = <<>>

(***************************************************************************)
(* C26: in every validated order, priced order and shipment line the       *)
(* pipeline produces, the variant of the quantity matches the variant of   *)
(* the product code: a line with a WidgetCode has a UnitQuantity, a line   *)
(* with a GizmoCode a KilogramQuantity.                                    *)
(***************************************************************************)
quantityVariantOf ==
  [WidgetCode |-> "UnitQuantity", GizmoCode |-> "KilogramQuantity"]

variantsMatch(line) ==
  /\ line.productCode._tag \in DOMAIN quantityVariantOf
  /\ line.quantity._tag = quantityVariantOf[line.productCode._tag]

allVariantsMatch(lines) == \A i \in 1..Len(lines) : variantsMatch(lines[i])

C26_QuantityVariant ==
  /\ (entry = "OrderQuantityCreate" /\ pc = "returned" /\ isRight(result)) =>
       result.right._tag = quantityVariantOf[order.value.productCode._tag]
  /\ isSome(bound.lines) => allVariantsMatch(bound.lines.value)
  /\ isSome(validatedOrder) => allVariantsMatch(validatedOrder.value.lines)
  /\ isSome(pricedOrder) => allVariantsMatch(productLinesOf(pricedOrder.value.lines))
  /\ succeeded => allVariantsMatch(shippingEventOf(result.right).shipmentLines)

\* placeOrder validated an order of a Gizmo line and a Widget line
C26_Witness ==
  /\ entry = "placeOrder"
  /\ isSome(validatedOrder)
  /\ Len(validatedOrder.value.lines) = 2
  /\ validatedOrder.value.lines[1].productCode._tag = "GizmoCode"
  /\ validatedOrder.value.lines[1].quantity._tag = "KilogramQuantity"
  /\ validatedOrder.value.lines[2].productCode._tag = "WidgetCode"
  /\ validatedOrder.value.lines[2].quantity._tag = "UnitQuantity"

\* a priced order and a shipment event with lines of both variants
BothVariantsPricedAndShipped ==
  /\ succeeded
  /\ Len(shippingEventOf(result.right).shipmentLines) = 2
  /\ shippingEventOf(result.right).shipmentLines[1].quantity._tag = "KilogramQuantity"
  /\ shippingEventOf(result.right).shipmentLines[2].quantity._tag = "UnitQuantity"

(***************************************************************************)
(* C27: String50.createOption returns success with None for a null or      *)
(* empty input, success with Some of a value holding the input unchanged   *)
(* for an input of 1 to 50 characters, and an error only when the input is *)
(* longer than 50 characters; hence an absent optional address line never  *)
(* fails the validation of an address.                                     *)
(***************************************************************************)
OptionalLineFields == {"AddressLine2", "AddressLine3", "AddressLine4"}

\* the address of a placeOrder run whose optional lines are all absent, and
\* the Address made of it, if one was
absentLinesPass(address, constructed, step) ==
  (isFalsy(address.addressLine2) /\ isFalsy(address.addressLine3)
     /\ isFalsy(address.addressLine4)) =>
    /\ failedStep = step => result.left.fieldName \notin OptionalLineFields
    /\ isSome(constructed) =>
         /\ constructed.value.addressLine2 = None
         /\ constructed.value.addressLine3 = None
         /\ constructed.value.addressLine4 = None

C27_CreateOption ==
  /\ (entry = "String50CreateOption" /\ pc = "returned") =>
       LET str == order.value.str
       IN  /\ isFalsy(str) => result = Right(None)
           /\ (~isFalsy(str) /\ Len(str) <= String50MaxLen) =>
                result = Right(Some([_tag |-> "String50", value |-> str]))
           /\ isLeft(result) <=> (~isFalsy(str) /\ Len(str) > String50MaxLen)
  /\ entry = "placeOrder" =>
       /\ absentLinesPass(order.value.shippingAddress, bound.shippingAddress,
                          "shippingAddress")
       /\ absentLinesPass(order.value.billingAddress, bound.billingAddress,
                          "billingAddress")

\* null gave None
C27_Witness ==
  /\ entry = "String50CreateOption"
  /\ pc = "returned"
  /\ order.value.str = null
  /\ result = Right(None)

\* fifty characters gave Some, fifty-one an error
CreateOptionAtTheBound ==
  /\ entry = "String50CreateOption"
  /\ pc = "returned"
  /\ \/ Len(order.value.str) = String50MaxLen /\ isSome(result.right)
     \/ Len(order.value.str) = String50MaxLen + 1 /\ isLeft(result)

(***************************************************************************)
(* C28: the function getPricingFunction returns selects the lookup by the  *)
(* pricing method: for "Standard" every product code gets its standard     *)
(* price; for a promotion code a product gets the promotional price when   *)
(* the promotion defines one for it, and the standard price otherwise.     *)
(***************************************************************************)
C28_PricingFunction ==
  (entry = "getPricingFunction" /\ pc = "returned") =>
    LET standardPrice == order.value.tables.std[order.value.productCode._tag]
        promotionPrice == order.value.tables.promo[order.value.productCode._tag]
    IN  /\ order.value.pricingMethod = Standard => result = standardPrice
        /\ order.value.pricingMethod._tag = "PromotionCode" =>
             /\ isSome(promotionPrice) => result = promotionPrice.value
             /\ isNone(promotionPrice) => result = standardPrice

\* a promotion that prices the Widget below its standard price
C28_Witness ==
  /\ entry = "getPricingFunction"
  /\ pc = "returned"
  /\ order.value.pricingMethod = PromotionCode(s_HALF)
  /\ order.value.productCode._tag = "WidgetCode"
  /\ order.value.tables.std.WidgetCode = Price(Num(UnitPrice))
  /\ order.value.tables.promo.WidgetCode = Some(Price(0))
  /\ result = Price(0)

\* the same promotion has no price for the Gizmo: the standard price
PromotionFallsBack ==
  /\ entry = "getPricingFunction"
  /\ pc = "returned"
  /\ order.value.pricingMethod = PromotionCode(s_HALF)
  /\ order.value.productCode._tag = "GizmoCode"
  /\ order.value.tables.promo.WidgetCode = Some(Price(0))
  /\ result = Price(Num(UnitPrice))

(***************************************************************************)
(* C29: later order shapes are built from earlier ones without altering    *)
(* them: a PricedOrder carries the orderId, customerInfo, shippingAddress,  *)
(* billingAddress and pricingMethod of its ValidatedOrder unchanged, the    *)
(* pricedOrder inside the PricedOrderWithShippingMethod is unchanged by the *)
(* shipping and VIP steps, and every event of a successful run carries the  *)
(* orderId of the order (the acknowledgment event also the customer's       *)
(* email address).                                                          *)
(***************************************************************************)
shapesCarried ==
  /\ (isSome(validatedOrder) /\ isSome(pricedOrder)) =>
       /\ pricedOrder.value.orderId = validatedOrder.value.orderId
       /\ pricedOrder.value.customerInfo = validatedOrder.value.customerInfo
       /\ pricedOrder.value.shippingAddress = validatedOrder.value.shippingAddress
       /\ pricedOrder.value.billingAddress = validatedOrder.value.billingAddress
       /\ pricedOrder.value.pricingMethod = validatedOrder.value.pricingMethod
  /\ isSome(withShipping) => withShipping.value.pricedOrder = pricedOrder.value
  /\ isSome(pricedOrderWithShipping) =>
       pricedOrderWithShipping.value.pricedOrder = pricedOrder.value
  /\ succeeded =>
       \A i \in 1..Len(result.right) :
         /\ result.right[i].orderId = pricedOrder.value.orderId
         /\ isSome(validatedOrder) =>
              result.right[i].orderId = validatedOrder.value.orderId
         /\ result.right[i]._tag = "OrderAcknowledgementSent" =>
              result.right[i].emailAddress = pricedOrder.value.customerInfo.emailAddress

\* a shape that exists is left as it is by every step
shapesKept ==
  /\ isSome(order) => order' = order
  /\ isSome(validatedOrder) => validatedOrder' = validatedOrder
  /\ isSome(pricedOrder) => pricedOrder' = pricedOrder
  /\ isSome(withShipping) => withShipping' = withShipping
  /\ isSome(pricedOrderWithShipping) => pricedOrderWithShipping' = pricedOrderWithShipping

C29_ShapesUnaltered == []shapesCarried /\ [][shapesKept]_vars

\* the order of a VIP, billed more than nothing, went through the VIP step
\* and gave its three events
C29_Witness ==
  /\ succeeded
  /\ pricedOrder.value.customerInfo.vipStatus = "Vip"
  /\ pricedOrder.value.amountToBill.value > 0
  /\ pricedOrderWithShipping.value.pricedOrder = pricedOrder.value
  /\ Len(result.right) = 3

\* a validated order with a promotion was priced
PromotionOrderPriced ==
  /\ entry = "priceOrder"
  /\ done
  /\ isSome(pricedOrder)
  /\ validatedOrder.value.pricingMethod = PromotionCode(s_HALF)
  /\ pricedOrder.value.pricingMethod = PromotionCode(s_HALF)
  /\ Len(validatedOrder.value.lines) = 2

(***************************************************************************)
(* C30: the conversion of the address DTO round-trips: for every           *)
(* AddressDto d for which toAddress(d) succeeds, fromAddress(toAddress(d)) *)
(* equals d field by field, each of the optional addressLine2,             *)
(* addressLine3 and addressLine4 included (an absent line being the empty  *)
(* string).                                                                *)
(***************************************************************************)
roundTripped ==
  entry = "fromAddress" /\ pc = "returned" /\ isRight(result)

C30_AddressRoundTrip ==
  roundTripped => result.right = order.value.dto

\* what holds of it: every field but lines 3 and 4 comes back, and these
\* two come back as line 2
AddressRoundTripButLines ==
  roundTripped =>
    result.right = [order.value.dto EXCEPT !.addressLine3 = order.value.dto.addressLine2,
                                           !.addressLine4 = order.value.dto.addressLine2]

\* a DTO with three different optional lines went through both conversions
ThreeLinesRoundTripped ==
  /\ roundTripped
  /\ order.value.dto.addressLine2 = <<"2">>
  /\ order.value.dto.addressLine3 = <<"3">>
  /\ order.value.dto.addressLine4 = <<"4">>

=============================================================================
